---- MODULE Spec2Model ----
(***************************************************************************)
(* Verification model of the hexlet-go-crawler crawl engine:               *)
(*   Spec        the concurrent crawl (aggregator, crawl workers, the      *)
(*               link-check pool, the fetch and asset caches, the fetch    *)
(*               semaphore, report emission);                              *)
(*   SpecFetch   Fetcher.Fetch with its retry loop and the shared rate     *)
(*               limiter, called by concurrent callers under a clock.      *)
(*   SpecLive    cancellable crawls and cancellable Fetch calls under fair  *)
(*               scheduling, for termination after cancellation.           *)
(***************************************************************************)
EXTENDS Integers, Sequences, FiniteSets, TLC

(***************************************************************************)
(* Strings.  Go compares strings bytewise; a string is modelled by the     *)
(* sequence of its characters and a character by its rank in Alphabet,     *)
(* which lists the characters used in ASCII order.                         *)
(***************************************************************************)
Alphabet ==
  << "&", ".", "/", "0", "1", "2", "3", "4", "5", "6", "7", "8", "9", ":",
     "?", "E", "I", "O", "X",
     "a", "b", "c", "d", "e", "f", "g", "h", "i", "j", "k", "l", "m",
     "n", "o", "p", "q", "r", "s", "t", "u", "v", "w", "x", "y", "z" >>

Code(c) == CHOOSE i \in 1..Len(Alphabet) : Alphabet[i] = c

\* Go's s < t on strings: bytewise lexicographic, a proper prefix is smaller.
RECURSIVE StrLess(_, _)
StrLess(s, t) ==
  IF t = << >> THEN FALSE
  ELSE IF s = << >> THEN TRUE
  ELSE IF Code(Head(s)) # Code(Head(t)) THEN Code(Head(s)) < Code(Head(t))
  ELSE StrLess(Tail(s), Tail(t))

\* The characters of the scheme, host, path and query literals used by the
\* model.
Chars ==
  [ s \in {"", "http", "https", "ex.io", "ex.io:8443", "ex.io:443", "evil.io",
           "EX.IO", "/", "/a", "/b", "/m", "/z", "/l", "/q", "/m/",
           "?", "?a&b", "?b&a",
           "/f01", "/f02", "/f03", "/f04", "/f05", "/f06", "/f07", "/f08",
           "/f09", "/f10", "/f11", "/f12", "/f13", "/f14", "/f15", "/f16",
           "/f17", "/f18", "/f19"} |->
      CASE s = ""           -> << >>
        [] s = "http"       -> <<"h","t","t","p">>
        [] s = "https"      -> <<"h","t","t","p","s">>
        [] s = "ex.io"      -> <<"e","x",".","i","o">>
        [] s = "ex.io:8443" -> <<"e","x",".","i","o",":","8","4","4","3">>
        [] s = "ex.io:443"  -> <<"e","x",".","i","o",":","4","4","3">>
        [] s = "evil.io"    -> <<"e","v","i","l",".","i","o">>
        [] s = "/"          -> <<"/">>
        [] s = "/a"         -> <<"/","a">>
        [] s = "/b"         -> <<"/","b">>
        [] s = "/m"         -> <<"/","m">>
        [] s = "/z"         -> <<"/","z">>
        [] s = "/l"         -> <<"/","l">>
        [] s = "EX.IO"      -> <<"E","X",".","I","O">>
        [] s = "/q"         -> <<"/","q">>
        [] s = "/m/"        -> <<"/","m","/">>
        [] s = "?"          -> <<"?">>
        [] s = "?a&b"       -> <<"?","a","&","b">>
        [] s = "?b&a"       -> <<"?","b","&","a">>
        [] s = "/f01" -> <<"/","f","0","1">> [] s = "/f02" -> <<"/","f","0","2">>
        [] s = "/f03" -> <<"/","f","0","3">> [] s = "/f04" -> <<"/","f","0","4">>
        [] s = "/f05" -> <<"/","f","0","5">> [] s = "/f06" -> <<"/","f","0","6">>
        [] s = "/f07" -> <<"/","f","0","7">> [] s = "/f08" -> <<"/","f","0","8">>
        [] s = "/f09" -> <<"/","f","0","9">> [] s = "/f10" -> <<"/","f","1","0">>
        [] s = "/f11" -> <<"/","f","1","1">> [] s = "/f12" -> <<"/","f","1","2">>
        [] s = "/f13" -> <<"/","f","1","3">> [] s = "/f14" -> <<"/","f","1","4">>
        [] s = "/f15" -> <<"/","f","1","5">> [] s = "/f16" -> <<"/","f","1","6">>
        [] s = "/f17" -> <<"/","f","1","7">> [] s = "/f18" -> <<"/","f","1","8">>
        [] s = "/f19" -> <<"/","f","1","9">> ]

(***************************************************************************)
(* URLs.  An absolute URL string is interned: the state holds its index in *)
(* UrlTable, and url.Parse of the string gives the row's scheme, host      *)
(* (with the explicit port, as url.URL.Host has it), path and query.  The  *)
(* query is written with its "?": "" is no query, "?" is the empty query   *)
(* (ForceQuery), "?a&b" is RawQuery "a&b".                                 *)
(***************************************************************************)
FanoutPaths ==
  << "/f01", "/f02", "/f03", "/f04", "/f05", "/f06", "/f07", "/f08", "/f09",
     "/f10", "/f11", "/f12", "/f13", "/f14", "/f15", "/f16", "/f17", "/f18",
     "/f19" >>

MkURLQ(scheme, host, path, query) ==
  [scheme |-> scheme, host |-> host, path |-> path, query |-> query]

MkURL(scheme, host, path) == MkURLQ(scheme, host, path, "")

BaseUrls ==
  << MkURL("https", "ex.io", ""),          \* 1  the canonical root
     MkURL("https", "ex.io", "/a"),        \* 2
     MkURL("https", "ex.io", "/b"),        \* 3
     MkURL("https", "ex.io", "/m"),        \* 4  answers 404
     MkURL("http",  "ex.io", "/a"),        \* 5  scheme differs from the root
     MkURL("https", "ex.io:8443", "/b"),   \* 6  port differs from the root
     MkURL("https", "evil.io", "/z"),      \* 7  other host
     MkURL("https", "ex.io", "/l"),        \* 8  an asset
     MkURL("https", "ex.io:443", "/m"),    \* 9  /m with the default port
     MkURL("https", "ex.io", "/"),         \* 10 the root with its slash
     MkURL("", "", "/a"),                  \* 11 the string "/a": no scheme, no host
     MkURLQ("https", "ex.io", "/m", "?"),  \* 12 /m with an empty query
     MkURLQ("https", "ex.io", "/q", "?a&b"),  \* 13
     MkURLQ("https", "ex.io", "/q", "?b&a"),  \* 14 the parameters of 13 reordered
     MkURL("https", "evil.io", ""),        \* 15
     MkURL("https", "evil.io", "/"),       \* 16 15 with the root path
     MkURL("https", "EX.IO", "/m"),        \* 17 /m with an upper-case host
     MkURL("https", "ex.io", "/m/") >>     \* 18 /m with a trailing slash

UrlTable ==
  BaseUrls \o [i \in 1..Len(FanoutPaths) |-> MkURL("https", "ex.io", FanoutPaths[i])]

URLs == 1..Len(UrlTable)
RootURL == 1

\* url.URL.String(): scheme "://" host path "?" query (no fragment here).
URLString(u) ==
  IF UrlTable[u].scheme = "" THEN Chars[UrlTable[u].path] \o Chars[UrlTable[u].query]
  ELSE Chars[UrlTable[u].scheme] \o <<":", "/", "/">> \o Chars[UrlTable[u].host]
         \o Chars[UrlTable[u].path] \o Chars[UrlTable[u].query]

\* The interned index of the URL with the given parts.
Intern(rec) == CHOOSE u \in URLs : UrlTable[u] = rec

(***************************************************************************)
(* Hrefs as the parser returns them, and internal/urlutil.                 *)
(***************************************************************************)
HAbs(scheme, host, path) ==
  [raw |-> "url", scheme |-> scheme, host |-> host, path |-> path, query |-> "",
   fragment |-> ""]
HRel(path) == HAbs("", "", path)
HProto(host, path) == HAbs("", host, path)
\* "/path?query" and "/path#fragment"
HRelQ(path, query) == [HRel(path) EXCEPT !.query = query]
HRelFrag(path, fragment) == [HRel(path) EXCEPT !.fragment = fragment]
HFrag == [HAbs("", "", "") EXCEPT !.raw = "frag"]
HEmpty == [HAbs("", "", "") EXCEPT !.raw = "empty"]
HMailto == HAbs("mailto", "", "")

\* url.URL.ResolveReference for a reference without a scheme: a reference
\* with a host keeps it and takes the base's scheme; one without takes the
\* base's scheme and host.  Paths of the model's hrefs are absolute, so the
\* reference's path and query are kept.
ResolveReference(base, h) ==
  IF h.host # "" THEN MkURLQ(UrlTable[base].scheme, h.host, h.path, h.query)
  ELSE MkURLQ(UrlTable[base].scheme, UrlTable[base].host, h.path, h.query)

\* urlutil.Resolve: 0 stands for ("", false).  resolved.Fragment = "": the
\* href's fragment is not part of the result.
Resolve(base, h) ==
  IF h.raw = "empty" THEN 0
  ELSE IF h.raw = "frag" THEN 0
  ELSE IF h.scheme # "" /\ h.scheme # "http" /\ h.scheme # "https" THEN 0
  ELSE LET resolved == IF h.scheme = "" THEN ResolveReference(base, h)
                       ELSE MkURLQ(h.scheme, h.host, h.path, h.query)
       IN IF resolved.scheme # "http" /\ resolved.scheme # "https" THEN 0
          ELSE Intern(resolved)

\* url.URL.Hostname() and url.URL.Port() of a host[:port].
Hostname(h) ==
  IF h \in {"ex.io:8443", "ex.io:443"} THEN "ex.io" ELSE h
\* strings.ToLower of a host name
ToLower(h) == IF h = "EX.IO" THEN "ex.io" ELSE h
Port(h) ==
  IF h = "ex.io:8443" THEN "8443" ELSE IF h = "ex.io:443" THEN "443" ELSE ""
\* net.JoinHostPort
JoinHostPort(host, port) ==
  IF host = "ex.io" /\ port = "8443" THEN "ex.io:8443"
  ELSE IF host = "ex.io" /\ port = "443" THEN "ex.io:443"
  ELSE host

SameOriginHostOnly(base, raw) ==
  Hostname(UrlTable[raw].host) = Hostname(UrlTable[base].host)

\* urlutil.SameOrigin: same scheme and same host (with port).
SameOrigin(base, raw) ==
  /\ UrlTable[raw].scheme = UrlTable[base].scheme
  /\ UrlTable[raw].host = UrlTable[base].host

(***************************************************************************)
(* Sites: what the HTTP client answers for each URL, and what the parser   *)
(* finds in the body.                                                      *)
(***************************************************************************)
\* size is the length of the body; clen is the response's Content-Length
\* header as the sequence of its characters, << >> when there is none.
\* before holds the status codes the server answers the first requests for
\* the URL with, before it answers with this response.
Ok(links, assets) ==
  [status |-> 200, neterr |-> FALSE, links |-> links, assets |-> assets, size |-> 7,
   badhtml |-> FALSE, clen |-> << >>, before |-> << >>]
NotFound ==
  [status |-> 404, neterr |-> FALSE, links |-> << >>, assets |-> << >>, size |-> 9,
   badhtml |-> FALSE, clen |-> << >>, before |-> << >>]
NetDown ==
  [status |-> 0, neterr |-> TRUE, links |-> << >>, assets |-> << >>, size |-> 0,
   badhtml |-> FALSE, clen |-> << >>, before |-> << >>]
\* A 200 whose body parser.ParseHTML rejects.
BadHtml ==
  [status |-> 200, neterr |-> FALSE, links |-> << >>, assets |-> << >>, size |-> 7,
   badhtml |-> TRUE, clen |-> << >>, before |-> << >>]
\* A response that carries a Content-Length header.
WithLength(resp, clen) == [resp EXCEPT !.clen = clen]
\* A URL whose first requests are answered with the given status codes
\* (the responder of the test counts its calls); those answers have the
\* body length and headers of the response that follows them.
Flaky(resp, statuses) == [resp EXCEPT !.before = statuses]
AssetRef(h, type) == [url |-> h, type |-> type]

SiteOrigin ==
  [u \in URLs |->
     CASE u = 1 -> Ok(<< HRel("/a"), HAbs("http", "ex.io", "/a"),
                         HAbs("https", "ex.io:8443", "/b"),
                         HProto("evil.io", "/z"), HFrag >>, << >>)
       [] u = 2 -> Ok(<< HRel("/b"), HMailto >>, << >>)
       [] u \in {3, 5, 6} -> Ok(<< >>, << >>)
       [] OTHER -> NotFound]

SiteOrder ==
  [u \in URLs |->
     CASE u = 1 -> Ok(<< HRel("/b"), HRel("/a"), HRel("/m") >>,
                      << AssetRef(HRel("/l"), "image") >>)
       [] u = 2 -> Ok(<< HRel("/b"), HEmpty, HAbs("https", "ex.io:443", "/m") >>,
                      << AssetRef(HRel("/l"), "script") >>)
       [] u = 3 -> Ok(<< HRel("/a"), HRel("/m"), HAbs("https", "ex.io:443", "/m") >>,
                      << >>)
       [] u = 8 -> WithLength(Ok(<< >>, << >>), << "\t", "1", "2", "\n" >>)
       [] OTHER -> NotFound]

SiteFanout ==
  [u \in URLs |->
     CASE u = 1 -> Ok([i \in 1..Len(FanoutPaths) |-> HRel(FanoutPaths[i])], << >>)
       [] u > Len(BaseUrls) -> Ok(<< >>, << >>)
       [] OTHER -> NotFound]

\* Sites whose root fails: no connection, a 404, a body that does not parse.
SiteDown == [u \in URLs |-> NetDown]
SiteGone == [u \in URLs |-> NotFound]
SiteBadRoot == [u \in URLs |-> BadHtml]

\* A site whose root is fine and whose page /a does not parse, /b is down
\* and asset /l is missing.
SiteBadChild ==
  [u \in URLs |->
     CASE u = 1 -> Ok(<< HRel("/a"), HRel("/b") >>, << AssetRef(HRel("/l"), "image") >>)
       [] u = 2 -> BadHtml
       [] u = 3 -> NetDown
       [] u = 8 -> WithLength(NotFound, << "-", "1" >>)
       [] OTHER -> NotFound]

\* A site whose root names /a both as a link and as an asset.
SiteShared ==
  [u \in URLs |->
     CASE u = 1 -> Ok(<< HRel("/a") >>, << AssetRef(HRel("/a"), "script") >>)
       [] u = 2 -> Ok(<< >>, << >>)
       [] OTHER -> NotFound]

\* A site on which /l is linked from /b (one link from the root) and from
\* /m (two links from the root, through /a).
SiteRace ==
  [u \in URLs |->
     CASE u = 1 -> Ok(<< HRel("/a"), HRel("/b") >>, << >>)
       [] u = 2 -> Ok(<< HRel("/m") >>, << >>)
       [] u = 3 -> Ok(<< HRel("/l") >>, << >>)
       [] u = 4 -> Ok(<< HRel("/l") >>, << >>)
       [] u = 8 -> Ok(<< >>, << >>)
       [] OTHER -> NotFound]

\* A site whose root links to broken URLs that differ in spelling only:
\* /m with a fragment, with the default port, with an empty query and with
\* an upper-case host; /q with its two parameters in either order; another
\* host with and without the root path.
SiteCanon ==
  [u \in URLs |->
     CASE u = 1 -> Ok(<< HRel("/m"), HRelFrag("/m", "x"),
                         HAbs("https", "ex.io:443", "/m"), HRelQ("/m", "?"),
                         HAbs("https", "EX.IO", "/m"),
                         HRelQ("/q", "?a&b"), HRelQ("/q", "?b&a"),
                         HAbs("https", "evil.io", "/"), HAbs("https", "evil.io", "") >>,
                      << >>)
       [] u \in {15, 16} -> NetDown
       [] OTHER -> NotFound]

\* A site whose root links to /m and /m/, both missing.
SiteSlash ==
  [u \in URLs |->
     CASE u = 1 -> Ok(<< HRel("/m"), HRel("/m/") >>, << >>)
       [] OTHER -> NotFound]

\* A site on which, with two workers, page /a downloads its asset while
\* page /b has its two links probed.
SiteBusy ==
  [u \in URLs |->
     CASE u = 1 -> Ok(<< HRel("/a"), HRel("/b") >>, << >>)
       [] u = 2 -> Ok(<< >>, << AssetRef(HRel("/l"), "image") >>)
       [] u = 3 -> Ok(<< HRel("/m"), HRelQ("/q", "?a&b") >>, << >>)
       [] u = 8 -> WithLength(Ok(<< >>, << >>), << "7", "\"" >>)
       [] OTHER -> NotFound]

\* A site on which, with two workers, the pages /a and /b have the same
\* link probed at the same time.
SiteTwin ==
  [u \in URLs |->
     CASE u = 1 -> Ok(<< HRel("/a"), HRel("/b") >>, << >>)
       [] u \in {2, 3} -> Ok(<< HRel("/m") >>, << >>)
       [] OTHER -> NotFound]

\* A site on which, with two workers and one slot of the fetch semaphore,
\* the asset of the page /a and the link of the page /b are fetched at the
\* same time.
SiteContend ==
  [u \in URLs |->
     CASE u = 1 -> Ok(<< HRel("/a"), HRel("/b") >>, << >>)
       [] u = 2 -> Ok(<< >>, << AssetRef(HRel("/l"), "image") >>)
       [] u = 3 -> Ok(<< HRel("/m") >>, << >>)
       [] u = 8 -> Ok(<< >>, << >>)
       [] OTHER -> NotFound]

\* A site whose root links to /a, answered 503 and then 200, and to /m,
\* answered 500 and then 404, and has the asset /l, answered 429 and then
\* 200.  No URL is both a link and an asset.
SiteFlaky ==
  [u \in URLs |->
     CASE u = 1 -> Ok(<< HRel("/a"), HRel("/m") >>, << AssetRef(HRel("/l"), "image") >>)
       [] u = 2 -> Flaky(Ok(<< >>, << >>), << 503 >>)
       [] u = 4 -> Flaky(NotFound, << 500 >>)
       [] u = 8 -> Flaky(Ok(<< >>, << >>), << 429 >>)
       [] OTHER -> NotFound]

Site(name) ==
  CASE name = "origin" -> SiteOrigin
    [] name = "flaky" -> SiteFlaky
    [] name = "order"  -> SiteOrder
    [] name = "fanout" -> SiteFanout
    [] name = "down" -> SiteDown
    [] name = "gone" -> SiteGone
    [] name = "shared" -> SiteShared
    [] name = "race" -> SiteRace
    [] name = "canon" -> SiteCanon
    [] name = "slash" -> SiteSlash
    [] name = "busy" -> SiteBusy
    [] name = "twin" -> SiteTwin
    [] name = "contend" -> SiteContend
    [] name = "badroot" -> SiteBadRoot
    [] name = "badchild" -> SiteBadChild

(***************************************************************************)
(* Options of one invocation (Options.URL is the root, no rate limit;     *)
(* Retries is 0 or negative: the retry loop and the limiter are            *)
(* SpecFetch's subject).                                                   *)
(***************************************************************************)
MaxDepth == 2
MaxWorkers == 2

\* ctx is the context Analyze is called with: "background" can never be
\* cancelled, "cancel" can be cancelled by the caller at any moment.
\* URL is Options.URL (0: the empty string) and HTTPClient tells whether
\* Options.HTTPClient is set.
Opt(site, workers, depth, maxFetch, ctx) ==
  [site |-> site, Concurrency |-> workers, Depth |-> depth,
   MaxConcurrentFetch |-> maxFetch, ctx |-> ctx, URL |-> 1, HTTPClient |-> TRUE,
   Retries |-> 0]

Configs ==
  { Opt("origin", w, d, 0, "background") : w \in 1..MaxWorkers, d \in 0..MaxDepth }
  \cup { Opt("order", w, d, 0, "background") : w \in {1, MaxWorkers}, d \in {0, MaxDepth} }
  \cup { Opt("origin", 1, d, 0, "cancel") : d \in 0..MaxDepth }
  \cup { Opt("order", 1, d, 0, "cancel") : d \in {0, MaxDepth} }
  \cup { Opt("order", 2, 0, 0, "cancel"), Opt("fanout", 1, 1, 0, "background") }
  \cup { Opt(s, 1, 1, 0, "background") :
           s \in {"down", "gone", "badroot", "badchild", "shared", "canon", "slash"} }
  \cup { [Opt("origin", 1, 1, 0, "background") EXCEPT !.URL = u] : u \in {0, 10, 11} }
  \cup { [Opt("origin", 1, 1, 0, "background") EXCEPT !.HTTPClient = FALSE],
         [Opt("origin", 1, 1, 0, "background") EXCEPT !.Retries = 0 - 1],
         [Opt("origin", 1, 0, 0, "background") EXCEPT !.Depth = 0 - 1],
         Opt("origin", 0, 0, 0, "background"), Opt("origin", 1, 0, 2, "background"),
         Opt("busy", 2, 1, 0, "background"), Opt("twin", 2, 1, 0, "cancel"),
         Opt("race", 2, MaxDepth + 1, 0, "background") }

\* analyzer.run: workerCount
WorkerCount(opts) == IF opts.Concurrency < 1 THEN 1 ELSE opts.Concurrency

\* analyzer.run: jobBuffer
JobBufferMin == 16
JobBuffer(opts) ==
  IF WorkerCount(opts) * 4 < JobBufferMin THEN JobBufferMin ELSE WorkerCount(opts) * 4

normalizeMaxConcurrentFetchWide(opts) == 8

normalizeMaxConcurrentFetch(opts) ==
  LET m == IF opts.MaxConcurrentFetch <= 0 THEN opts.Concurrency
           ELSE opts.MaxConcurrentFetch
  IN IF m < 1 THEN 1 ELSE m

linkCheckPoolSize(opts) ==
  LET m == normalizeMaxConcurrentFetch(opts)
      w == IF 2 > m THEN m ELSE 2
  IN IF w < 1 THEN 1 ELSE w

normalizeMaxDepth(depth) == IF depth < 0 THEN 0 ELSE depth

\* The error of parseRootURL for a URL that url.Parse accepts.
parseRootURLError(u) ==
  IF UrlTable[u].scheme = "" \/ UrlTable[u].host = ""
  THEN "missing scheme or host" ELSE ""

\* parseRootURL followed by baseURL.String(): 0 for an error (no scheme or
\* no host); the path "/" becomes "".
parseRootURL(u) ==
  IF UrlTable[u].scheme = "" \/ UrlTable[u].host = "" THEN 0
  ELSE IF UrlTable[u].path = "/"
       THEN Intern(MkURL(UrlTable[u].scheme, UrlTable[u].host, ""))
  ELSE u

(***************************************************************************)
(* Values.                                                                 *)
(***************************************************************************)
\* A Go slice that may be nil: Page.BrokenLinks, Page.Assets.
NilSlice == [nil |-> TRUE, v |-> << >>]
Slice(s) == [nil |-> FALSE, v |-> s]

\* (fetcher.Result, error): err is "nil", "status" (errorForStatus of a
\* status >= 400), "net" (a transport error) or "ctx" (ctx.Err()).
Res(status, err) == [status |-> status, err |-> err]
EmptyRes == Res(0, "nil")
CtxResNil == Res(0, "nil")

\* (fetcher.Result{}, ctx.Err())
CtxRes == Res(0, "ctx")

\* net/http.StatusText: the reason phrase of a registered status code, ""
\* for any other code.
HTTPStatusText(code) ==
  CASE code = 100 -> "Continue"
    [] code = 101 -> "Switching Protocols"
    [] code = 102 -> "Processing"
    [] code = 103 -> "Early Hints"
    [] code = 200 -> "OK"
    [] code = 201 -> "Created"
    [] code = 202 -> "Accepted"
    [] code = 203 -> "Non-Authoritative Information"
    [] code = 204 -> "No Content"
    [] code = 205 -> "Reset Content"
    [] code = 206 -> "Partial Content"
    [] code = 207 -> "Multi-Status"
    [] code = 208 -> "Already Reported"
    [] code = 226 -> "IM Used"
    [] code = 300 -> "Multiple Choices"
    [] code = 301 -> "Moved Permanently"
    [] code = 302 -> "Found"
    [] code = 303 -> "See Other"
    [] code = 304 -> "Not Modified"
    [] code = 305 -> "Use Proxy"
    [] code = 307 -> "Temporary Redirect"
    [] code = 308 -> "Permanent Redirect"
    [] code = 400 -> "Bad Request"
    [] code = 401 -> "Unauthorized"
    [] code = 402 -> "Payment Required"
    [] code = 403 -> "Forbidden"
    [] code = 404 -> "Not Found"
    [] code = 405 -> "Method Not Allowed"
    [] code = 406 -> "Not Acceptable"
    [] code = 407 -> "Proxy Authentication Required"
    [] code = 408 -> "Request Timeout"
    [] code = 409 -> "Conflict"
    [] code = 410 -> "Gone"
    [] code = 411 -> "Length Required"
    [] code = 412 -> "Precondition Failed"
    [] code = 413 -> "Request Entity Too Large"
    [] code = 414 -> "Request URI Too Long"
    [] code = 415 -> "Unsupported Media Type"
    [] code = 416 -> "Requested Range Not Satisfiable"
    [] code = 417 -> "Expectation Failed"
    [] code = 418 -> "I'm a teapot"
    [] code = 421 -> "Misdirected Request"
    [] code = 422 -> "Unprocessable Entity"
    [] code = 423 -> "Locked"
    [] code = 424 -> "Failed Dependency"
    [] code = 425 -> "Too Early"
    [] code = 426 -> "Upgrade Required"
    [] code = 428 -> "Precondition Required"
    [] code = 429 -> "Too Many Requests"
    [] code = 431 -> "Request Header Fields Too Large"
    [] code = 451 -> "Unavailable For Legal Reasons"
    [] code = 500 -> "Internal Server Error"
    [] code = 501 -> "Not Implemented"
    [] code = 502 -> "Bad Gateway"
    [] code = 503 -> "Service Unavailable"
    [] code = 504 -> "Gateway Timeout"
    [] code = 505 -> "HTTP Version Not Supported"
    [] code = 506 -> "Variant Also Negotiates"
    [] code = 507 -> "Insufficient Storage"
    [] code = 508 -> "Loop Detected"
    [] code = 510 -> "Not Extended"
    [] code = 511 -> "Network Authentication Required"
    [] OTHER -> ""

\* statusText: the reason phrase, or "http status <code>" when the code has
\* none.
statusText(status) ==
  IF HTTPStatusText(status) = ""
  THEN "http status " \o ToString(status)
  ELSE HTTPStatusText(status)

errorString(res) ==
  IF res.err = "net" THEN "dial tcp: connection refused"
  ELSE IF res.err = "ctx" THEN "context canceled"
  ELSE IF res.err = "parse" THEN "parse html"
  ELSE IF res.err = "status" \/ res.status >= 400 THEN statusText(res.status)
  ELSE ""

newPage(url, depth) ==
  [url |-> url, depth |-> depth, httpStatus |-> 0, status |-> "", error |-> "",
   brokenLinks |-> Slice(<< >>), assets |-> Slice(<< >>)]

NoJob == [url |-> 0, depth |-> 0, seq |-> 0]
NoPage == newPage(0, 0)
NoResult == [job |-> NoJob, page |-> NoPage, links |-> << >>, err |-> "nil"]

(***************************************************************************)
(* Errors.  An error is the chain of its layers from the outside in, as    *)
(* errors.Is / errors.As walk it; << >> is nil.  Layers: "url" a         *)
(* *url.Error, "wrap" a fmt.Errorf("%w") wrapper; leaves: "net" (a         *)
(* net.Error such as *net.OpError), "eof", "ueof", "canceled", "deadline", *)
(* "invalid" (errInvalidRequest), "plain" (errors.New, e.g. unsupported    *)
(* protocol scheme), "status" (errorForStatus of a status >= 400).         *)
(***************************************************************************)
Has(err, k) == \E i \in 1..Len(err) : err[i] = k

isContextCanceled(err) == Has(err, "canceled") \/ Has(err, "deadline")

isEOFLike(err) == Has(err, "eof") \/ Has(err, "ueof")

\* errors.As(err, &netErr) with the url.Error layers already unwrapped:
\* *net.OpError and the like implement net.Error.
isNetError(err) == Has(err, "net")

\* The chain below the outermost *url.Error of err: urlErr.Err.
RECURSIVE BelowUrl(_)
BelowUrl(err) ==
  IF err = << >> THEN << >>
  ELSE IF Head(err) = "url" THEN Tail(err)
  ELSE BelowUrl(Tail(err))

\* The loop of isRetryableURLError over err = urlErr.Err.
RECURSIVE urlErrLoop(_)
urlErrLoop(err) ==
  IF err = << >> THEN FALSE
  ELSE IF isContextCanceled(err) THEN FALSE
  ELSE IF Has(err, "invalid") THEN FALSE
  ELSE IF isEOFLike(err) THEN TRUE
  ELSE IF Has(err, "url") THEN urlErrLoop(BelowUrl(err))
  ELSE isNetError(err)

isRetryableURLError(urlErr) ==
  IF isContextCanceled(urlErr) THEN FALSE
  ELSE IF Has(urlErr, "invalid") THEN FALSE
  ELSE IF isEOFLike(urlErr) THEN TRUE
  ELSE urlErrLoop(BelowUrl(urlErr))

isRetryableError(err) ==
  IF isContextCanceled(err) THEN FALSE
  ELSE IF Has(err, "invalid") THEN FALSE
  ELSE IF isEOFLike(err) THEN TRUE
  ELSE IF Has(err, "url") THEN isRetryableURLError(err)
  ELSE isNetError(err)

isRetryableAny4xx(statusCode, err) ==
  IF err # << >> THEN isRetryableError(err) ELSE statusCode >= 400

isRetryable(statusCode, err) ==
  IF err # << >> THEN isRetryableError(err)
  ELSE IF statusCode = 429 THEN TRUE
  ELSE statusCode >= 500

\* fetcher's errorForStatus
errorForStatus(err, statusCode) ==
  IF err # << >> THEN err
  ELSE IF statusCode >= 400 THEN << "status" >>
  ELSE << >>

coalesceError(primary, fallback) == IF primary # << >> THEN primary ELSE fallback

attemptsNoFirst(o) == o.Retries

\* Fetch: attempts := f.retries + 1
attemptsOf(o) == o.Retries + 1

(***************************************************************************)
(* Fetcher.Fetch as the crawl sees it: one step that returns what the      *)
(* retry loop returns.  The crawl has no rate limit, and the time the      *)
(* backoff takes is not observed.                                          *)
(***************************************************************************)
\* doRequest for the k-th attempt of a call.  A URL with earlier answers
\* is requested by one call of Fetch only (fetchWithCache calls Fetch once
\* per URL and no such URL is an asset too), so the k-th attempt of the
\* call is the k-th request the server sees.
AttemptOutcome(site, url, k) ==
  LET resp == Site(site)[url] IN
  IF k <= Len(resp.before) THEN Res(resp.before[k], "nil")
  ELSE IF resp.neterr THEN Res(0, "net")
  ELSE Res(resp.status, "nil")

\* The loop of Fetch from its k-th attempt on, the context never done: the
\* pair it returns and the attempts made.  A transport error is a
\* *url.Error around a net.Error.
RECURSIVE fetchLoop(_, _, _)
fetchLoop(o, url, k) ==
  LET out == AttemptOutcome(o.site, url, k)
      err == IF out.err = "net" THEN << "url", "net" >> ELSE << >> IN
  IF err = << >> /\ out.status < 400 THEN [res |-> out, tries |-> k]
  ELSE IF ~isRetryable(out.status, err) \/ k - 1 = attemptsOf(o) - 1
  THEN [res |-> Res(out.status, IF err = << >> THEN "status" ELSE out.err),
        tries |-> k]
  ELSE fetchLoop(o, url, k + 1)

\* What Fetch returns when the context is done by the time its k-th attempt
\* is over or its backoff after it ends: the request was aborted, or it
\* completed and Fetch or shouldRetry then looked at ctx.Err(), or
\* clock.Sleep returned the context's error.
cancelledAt(o, url, k) ==
  LET out == AttemptOutcome(o.site, url, k) IN
  { [res |-> CtxRes, tries |-> k] }
    \cup (IF out.err = "net" THEN { [res |-> Res(0, "net"), tries |-> k] }
          ELSE IF out.status >= 400
          THEN { [res |-> Res(out.status, "ctx"), tries |-> k] }
          ELSE {})

\* Fetch returning what its first attempt gave, however many it made.
FetchRunsFirst(o, url, done) ==
  LET out == AttemptOutcome(o.site, url, 1) IN
  { [res |-> Res(out.status,
                 IF out.err # "nil" THEN out.err
                 ELSE IF out.status >= 400 THEN "status" ELSE "nil"),
     tries |-> fetchLoop(o, url, 1).tries] }

\* Fetcher.Fetch: the pairs it can return, each with the number of attempts
\* made.  With negative Retries the loop makes no attempt and Fetch returns
\* (Result{}, nil).
FetchRuns(o, url, done) ==
  IF attemptsOf(o) <= 0 THEN { [res |-> EmptyRes, tries |-> 0] }
  ELSE IF ~done THEN { fetchLoop(o, url, 1) }
  ELSE UNION { cancelledAt(o, url, k) : k \in 1..fetchLoop(o, url, 1).tries }

\* What Fetcher.Fetch returns to the crawl.
FetchReturns(o, url, done) == { run.res : run \in FetchRuns(o, url, done) }

\* What parser.ParseHTML is given: the body of the URL's response, or the
\* nil body of an empty Result.
BodyOf(site, url, status) ==
  IF status = 0 THEN Ok(<< >>, << >>) ELSE Site(site)[url]

(***************************************************************************)
(* State of one invocation of Analyze.                                     *)
(***************************************************************************)
VARIABLES
  opts,          \* Options of the invocation
  ctxDone,       \* the external context has fired
  jobs,          \* the jobs channel's buffer
  jobsChClosed,  \* the jobs channel is closed
  results,       \* the results channel's buffer
  resultsClosed, \* the results channel is closed
  agg,           \* aggregator fields, crawlState and the aggregator's position
  report,        \* a.report.Pages
  wk,            \* crawl workers: position and locals of processJob
  lcJobs,        \* linkChecker.jobs buffer
  lcClosed,      \* linkChecker.jobs is closed
  pool,          \* link-check pool workers
  resultCh,      \* per worker: resultCh of the page it is checking
  fc,            \* per thread: the frame of its fetchWithCache call
  entries,       \* the fetchCacheEntry objects ever allocated
  fetchCache,    \* a.fetchCache: URL -> entry (0: absent)
  assetEntries,  \* the assetCacheEntry objects ever allocated
  assetCache,    \* a.assetCache: URL -> entry (0: absent)
  fetchSem,      \* slots of a.fetchSem in use
  fetchCalls,    \* history: calls of Fetcher.Fetch made by fetchWithCache, per URL
  assetCalls,    \* history: calls of Fetcher.Fetch made by getAsset, per URL
  probes,        \* history: link-check jobs submitted, with the page's depth
  accepted,      \* history: crawl jobs accepted onto the jobs channel
  emitted,       \* the report Analyze marshals, once it has
  \* State of SpecFetch: one Fetcher with its limiter.
  fopts,         \* Options the Fetcher and the limiter are built from
  now,           \* the clock, in units of 100 ms
  fctxDone,      \* the context of the Fetch calls has fired
  last,          \* Limiter.last per limiter instance (0: the zero time)
  grants,        \* history: the last two slots reserved by Limiter.Wait
  fcall          \* per caller: position, locals and history of its Fetch call

\* The variables of the crawl and those of the fetcher.
cx == << opts, ctxDone, jobs, jobsChClosed, results, resultsClosed, agg,
         report, wk, lcJobs, lcClosed, pool, resultCh, fc, entries,
         fetchCache, assetEntries, assetCache, fetchSem, fetchCalls,
         assetCalls, probes, accepted, emitted >>
fx == << fopts, now, fctxDone, last, grants, fcall >>
vars == << cx, fx >>

\* The most crawl workers and the most link-check workers a configuration
\* starts: no configuration has more than MaxWorkers workers.
AllWorkerCount == MaxWorkers
AllPoolCount == linkCheckPoolSize(Opt("origin", MaxWorkers, 0, 0, "background"))
WorkerIds == 1..AllWorkerCount
PoolIds == 1..AllPoolCount
WT(w) == << "w", w >>
PT(p) == << "p", p >>
Threads == {WT(w) : w \in WorkerIds} \cup {PT(p) : p \in PoolIds}

NoFrame == [pc |-> "none", url |-> 0, entry |-> 0, res |-> EmptyRes, via |-> "none"]

IdleWorker ==
  [pc |-> "idle", job |-> NoJob, page |-> NoPage, resolved |-> << >>,
   idx |-> 0, sent |-> 0, got |-> 0, results |-> << >>, processed |-> << >>,
   links |-> << >>, assets |-> << >>, aidx |-> 0, aentry |-> 0,
   out |-> NoResult]

IdlePool == [pc |-> "idle", job |-> [idx |-> 0, url |-> 0, owner |-> 0]]

CrawlInit(o) ==
  /\ opts = o
  /\ ctxDone = FALSE
  /\ jobs = << >>
  /\ jobsChClosed = FALSE
  /\ results = << >>
  /\ resultsClosed = FALSE
  /\ agg = [pc |-> "seed", pending |-> 0, jobsClosed |-> FALSE, nextSeq |-> 0,
            nextCommit |-> 0, pendingPages |-> {}, seen |-> {},
            analysisErr |-> "nil", errWrites |-> 0, canceled |-> FALSE,
            cur |-> NoResult, idx |-> 0, closes |-> 0]
  /\ report = << >>
  /\ wk = [w \in WorkerIds |->
             IF w <= WorkerCount(opts) THEN IdleWorker
             ELSE [IdleWorker EXCEPT !.pc = "off"]]
  /\ lcJobs = << >>
  /\ lcClosed = FALSE
  /\ pool = [p \in PoolIds |->
               IF p <= linkCheckPoolSize(opts) THEN IdlePool
               ELSE [IdlePool EXCEPT !.pc = "off"]]
  /\ resultCh = [w \in WorkerIds |-> << >>]
  /\ fc = [t \in Threads |-> NoFrame]
  /\ entries = << >>
  /\ fetchCache = [u \in URLs |-> 0]
  /\ assetEntries = << >>
  /\ assetCache = [u \in URLs |-> 0]
  /\ fetchSem = 0
  /\ fetchCalls = [u \in URLs |-> 0]
  /\ assetCalls = [u \in URLs |-> 0]
  /\ probes = {}
  /\ accepted = {}
  /\ emitted = [done |-> FALSE, pages |-> << >>, err |-> "nil"]

maxDepthPlusOne == normalizeMaxDepth(opts.Depth) + 1

\* a.maxDepth, set by newAnalyzer.
maxDepth == normalizeMaxDepth(opts.Depth)

(***************************************************************************)
(* analyzer.fetchWithCache, called by thread t (a crawl worker for its     *)
(* page, a pool worker for a link probe).  fc[t].pc is "lock" when the     *)
(* call starts and "ret" when it has returned fc[t].res.                   *)
(***************************************************************************)
aggVars == << jobs, jobsChClosed, results, resultsClosed, agg, report, accepted, emitted >>
lcVars == << lcJobs, lcClosed, pool, resultCh, probes >>
assetVars == << assetEntries, assetCache, assetCalls >>
fetchVars == << fc, entries, fetchCache, fetchCalls >>

\* writes, closes and tries are history: the writes of the result, the
\* closes of ready and the attempts of the call of Fetch that filled it.
NewEntry ==
  [ready |-> FALSE, res |-> EmptyRes, writes |-> 0, closes |-> 0, tries |-> 0]

CallFetch(url) ==
  [pc |-> "lock", url |-> url, entry |-> 0, res |-> EmptyRes, via |-> "none"]

CacheLookupMiss(cache, url) == 0

\* cached, ok := a.fetchCache[absoluteURL] (0: not ok)
CacheLookup(cache, url) == cache[url]

\* a.fetchMu.Lock() ... Unlock(): find the entry, or insert a new one.
FwcLock(t) ==
  /\ fc[t].pc = "lock"
  /\ LET u == fc[t].url
         e == CacheLookup(fetchCache, u) IN
     IF e # 0
     THEN /\ fc' = [fc EXCEPT ![t].pc = "wait", ![t].entry = e]
          /\ UNCHANGED << entries, fetchCache >>
     ELSE /\ entries' = Append(entries, NewEntry)
          /\ fetchCache' = [fetchCache EXCEPT ![u] = Len(entries) + 1]
          /\ fc' = [fc EXCEPT ![t].pc = "acquire", ![t].entry = Len(entries) + 1]
  /\ UNCHANGED << fx, opts, ctxDone, wk, fetchSem, fetchCalls >>
  /\ UNCHANGED << aggVars, lcVars, assetVars >>

cachedResultUnset(entry) == EmptyRes

\* return cached.result, cached.err
cachedResult(entry) == entry.res

\* select { case <-ready: ...; case <-ctx.Done(): ... }
FwcWait(t) ==
  /\ fc[t].pc = "wait"
  /\ \/ /\ entries[fc[t].entry].ready
        /\ fc' = [fc EXCEPT ![t].pc = "ret", ![t].via = "ready",
                            ![t].res = cachedResult(entries[fc[t].entry])]
     \/ /\ ctxDone
        /\ fc' = [fc EXCEPT ![t].pc = "ret", ![t].via = "ctx", ![t].res = CtxRes]
  /\ UNCHANGED << fx, opts, ctxDone, wk, fetchSem, entries, fetchCache, fetchCalls >>
  /\ UNCHANGED << aggVars, lcVars, assetVars >>

acquireFailedSilent(entry) == entry

\* The entry after a failed acquireFetch: entry.result = fetcher.Result{},
\* entry.err = ctx.Err(), close(entry.ready).
acquireFailed(entry) ==
  [ready |-> TRUE, res |-> CtxRes, writes |-> entry.writes + 1,
   closes |-> entry.closes + 1, tries |-> 0]

\* a.acquireFetch(ctx): semaphore.Weighted.Acquire fails once ctx is done
\* and otherwise waits for a free slot.  On success Fetcher.Fetch is called;
\* on failure the entry is deleted from the map under the mutex.
FwcAcquire(t) ==
  /\ fc[t].pc = "acquire"
  /\ LET u == fc[t].url
         e == fc[t].entry IN
     \/ /\ ~ctxDone
        /\ fetchSem < normalizeMaxConcurrentFetch(opts)
        /\ fetchSem' = fetchSem + 1
        /\ fetchCalls' = [fetchCalls EXCEPT ![u] = @ + 1]
        /\ fc' = [fc EXCEPT ![t].pc = "fetch"]
        /\ UNCHANGED << entries, fetchCache >>
     \/ /\ ctxDone
        /\ fetchCache' = [fetchCache EXCEPT ![u] = 0]
        /\ fc' = [fc EXCEPT ![t].pc = "failed"]
        /\ UNCHANGED << entries, fetchSem, fetchCalls >>
  /\ UNCHANGED << fx, opts, ctxDone, wk >>
  /\ UNCHANGED << aggVars, lcVars, assetVars >>

\* After the mutex is released on the failure path: entry.result, entry.err
\* are written, close(entry.ready), return entry.result, entry.err.
FwcFailed(t) ==
  /\ fc[t].pc = "failed"
  /\ entries' = [entries EXCEPT ![fc[t].entry] = acquireFailed(@)]
  /\ fc' = [fc EXCEPT ![t].pc = "ret", ![t].via = "first", ![t].res = CtxRes]
  /\ UNCHANGED << fx, opts, ctxDone, wk, fetchSem, fetchCache, fetchCalls >>
  /\ UNCHANGED << aggVars, lcVars, assetVars >>

\* a.fetch.Fetch returns: store the result, close(entry.ready), and the
\* deferred releaseFetch.
FwcFetchEnd(t) ==
  /\ fc[t].pc = "fetch"
  /\ \E run \in FetchRuns(opts, fc[t].url, ctxDone) :
       /\ entries' = [entries EXCEPT ![fc[t].entry] =
                        [ready |-> TRUE, res |-> run.res, writes |-> @.writes + 1,
                         closes |-> @.closes + 1, tries |-> run.tries]]
       /\ fc' = [fc EXCEPT ![t].pc = "ret", ![t].via = "first", ![t].res = run.res]
  /\ fetchSem' = fetchSem - 1
  /\ UNCHANGED << fx, opts, ctxDone, wk, fetchCache, fetchCalls >>
  /\ UNCHANGED << aggVars, lcVars, assetVars >>

(***************************************************************************)
(* Pure helpers of processJob.                                             *)
(***************************************************************************)
\* analyzer.resolveLinks: resolve against the page, drop what does not
\* resolve, dedupe by absolute form keeping the first occurrence.
RECURSIVE resolveLinksFrom(_, _, _, _)
resolveLinksFrom(base, links, i, acc) ==
  IF i > Len(links) THEN acc
  ELSE LET u == Resolve(base, links[i]) IN
       IF u = 0 \/ (\E k \in 1..Len(acc) : acc[k] = u)
       THEN resolveLinksFrom(base, links, i + 1, acc)
       ELSE resolveLinksFrom(base, links, i + 1, Append(acc, u))

resolveLinks(pageURL, links) == resolveLinksFrom(pageURL, links, 1, << >>)

canonicalBrokenURLRaw(u) == u

\* canonicalBrokenURL: fragment dropped (Resolve left none), scheme (which
\* url.Parse already lowercased) and host lowercased, default port
\* stripped, path "/" dropped, the "?" of an empty query dropped.
canonicalBrokenURL(u) ==
  LET r == UrlTable[u]
      host == ToLower(Hostname(r.host))
      port == IF (r.scheme = "http" /\ Port(r.host) = "80")
                 \/ (r.scheme = "https" /\ Port(r.host) = "443")
              THEN "" ELSE Port(r.host)
  IN Intern(MkURLQ(r.scheme,
                   IF port = "" THEN host ELSE JoinHostPort(host, port),
                   IF r.path = "/" THEN "" ELSE r.path,
                   IF r.query = "?" THEN "" ELSE r.query))

BrokenLink(url, res) == [url |-> url, statusCode |-> res.status, error |-> errorString(res)]
NoLinkCheck == [broken |-> FALSE, link |-> [url |-> 0, statusCode |-> 0, error |-> ""], url |-> 0]

\* analyzer.checkBrokenLink, given what fetchWithCache returned.
checkBrokenLink(url, res) ==
  IF res.err # "nil" \/ res.status >= 400
  THEN [broken |-> TRUE, link |-> BrokenLink(url, res), url |-> url]
  ELSE [broken |-> FALSE, link |-> NoLinkCheck.link, url |-> url]

\* buildLinkResults: the pair <<brokenLinks, crawlLinks>>.
RECURSIVE buildLinkResultsFrom(_, _, _, _, _)
buildLinkResultsFrom(res, processed, i, broken, crawl) ==
  IF i > Len(res) THEN << broken, crawl >>
  ELSE IF ~processed[i] THEN buildLinkResultsFrom(res, processed, i + 1, broken, crawl)
  ELSE IF res[i].broken THEN
    LET key == canonicalBrokenURL(res[i].url) IN
    IF \E k \in 1..Len(broken) : broken[k].url = key
    THEN buildLinkResultsFrom(res, processed, i + 1, broken, crawl)
    ELSE buildLinkResultsFrom(res, processed, i + 1,
           Append(broken, [res[i].link EXCEPT !.url = key]), crawl)
  ELSE buildLinkResultsFrom(res, processed, i + 1, broken, Append(crawl, res[i].url))

buildLinkResultsAll(res, processed) ==
  buildLinkResultsFrom(res, [i \in 1..Len(res) |-> TRUE], 1, << >>, << >>)

buildLinkResults(res, processed) ==
  buildLinkResultsFrom(res, processed, 1, << >>, << >>)

\* dedupBrokenLinks
RECURSIVE dedupBrokenLinksFrom(_, _, _)
dedupBrokenLinksFrom(links, i, acc) ==
  IF i > Len(links) THEN acc
  ELSE LET key == canonicalBrokenURL(links[i].url) IN
       IF \E k \in 1..Len(acc) : acc[k].url = key
       THEN dedupBrokenLinksFrom(links, i + 1, acc)
       ELSE dedupBrokenLinksFrom(links, i + 1, Append(acc, [links[i] EXCEPT !.url = key]))

dedupBrokenLinks(links) == dedupBrokenLinksFrom(links, 1, << >>)

\* collectAssets, the part before getAsset: the asset references that
\* resolve, deduped by absolute URL, each with its declared type.
RECURSIVE resolveAssetsFrom(_, _, _, _)
resolveAssetsFrom(base, refs, i, acc) ==
  IF i > Len(refs) THEN acc
  ELSE LET u == Resolve(base, refs[i].url) IN
       IF u = 0 \/ (\E k \in 1..Len(acc) : acc[k].url = u)
       THEN resolveAssetsFrom(base, refs, i + 1, acc)
       ELSE resolveAssetsFrom(base, refs, i + 1,
                              Append(acc, [url |-> u, type |-> refs[i].type]))

resolveAssets(pageURL, refs) == resolveAssetsFrom(pageURL, refs, 1, << >>)

\* Characters of a header value.  A character is written as a string of
\* one character; a white-space character that a string of this module
\* cannot hold is written by its code point.
UnicodeSpaces ==
  { "U+000B", "U+0085", "U+00A0", "U+1680", "U+2000", "U+2001", "U+2002",
    "U+2003", "U+2004", "U+2005", "U+2006", "U+2007", "U+2008", "U+2009",
    "U+200A", "U+2028", "U+2029", "U+202F", "U+205F", "U+3000" }

\* unicode.IsSpace
IsSpace(ch) == ch \in {" ", "\t", "\n", "\r", "\f"} \cup UnicodeSpaces

\* strings.TrimSpace of a header value: leading and trailing white space
\* goes.
RECURSIVE TrimSpace(_)
TrimSpace(cs) ==
  IF cs = << >> THEN cs
  ELSE IF IsSpace(Head(cs)) THEN TrimSpace(Tail(cs))
  ELSE IF IsSpace(cs[Len(cs)]) THEN TrimSpace(SubSeq(cs, 1, Len(cs) - 1))
  ELSE cs

\* What strconv.Quote (and %q) writes for one character: the quote, the
\* backslash and the characters that are not printable are escaped.
QuoteChar(ch) ==
  CASE ch = "\"" -> "\\\""
    [] ch = "\\" -> "\\\\"
    [] ch = "\t" -> "\\t"
    [] ch = "\n" -> "\\n"
    [] ch = "\r" -> "\\r"
    [] ch = "\f" -> "\\f"
    [] ch = "U+000B" -> "\\v"
    [] ch = "U+0085" -> "\\u0085"
    [] ch = "U+00A0" -> "\\u00a0"
    [] ch = "U+1680" -> "\\u1680"
    [] ch = "U+2000" -> "\\u2000"
    [] ch = "U+2001" -> "\\u2001"
    [] ch = "U+2002" -> "\\u2002"
    [] ch = "U+2003" -> "\\u2003"
    [] ch = "U+2004" -> "\\u2004"
    [] ch = "U+2005" -> "\\u2005"
    [] ch = "U+2006" -> "\\u2006"
    [] ch = "U+2007" -> "\\u2007"
    [] ch = "U+2008" -> "\\u2008"
    [] ch = "U+2009" -> "\\u2009"
    [] ch = "U+200A" -> "\\u200a"
    [] ch = "U+2028" -> "\\u2028"
    [] ch = "U+2029" -> "\\u2029"
    [] ch = "U+202F" -> "\\u202f"
    [] ch = "U+205F" -> "\\u205f"
    [] ch = "U+3000" -> "\\u3000"
    [] OTHER -> ch

RECURSIVE QuoteChars(_)
QuoteChars(cs) == IF cs = << >> THEN "" ELSE QuoteChar(Head(cs)) \o QuoteChars(Tail(cs))

\* strconv.Quote(s)
Quote(cs) == "\"" \o QuoteChars(cs) \o "\""

DigitValue(ch) ==
  CASE ch = "0" -> 0 [] ch = "1" -> 1 [] ch = "2" -> 2 [] ch = "3" -> 3
    [] ch = "4" -> 4 [] ch = "5" -> 5 [] ch = "6" -> 6 [] ch = "7" -> 7
    [] ch = "8" -> 8 [] ch = "9" -> 9 [] OTHER -> 0 - 1

RECURSIVE DigitsValue(_, _)
DigitsValue(cs, acc) ==
  IF cs = << >> THEN acc ELSE DigitsValue(Tail(cs), 10 * acc + DigitValue(Head(cs)))

RECURSIVE StripZeros(_)
StripZeros(cs) ==
  IF Len(cs) > 1 /\ Head(cs) = "0" THEN StripZeros(Tail(cs)) ELSE cs

\* The digits of 1<<63 - 1 and of 1<<64 - 1.
MaxInt64Digits ==
  << "9", "2", "2", "3", "3", "7", "2", "0", "3", "6", "8", "5", "4", "7", "7",
     "5", "8", "0", "7" >>
MaxUint64Digits ==
  << "1", "8", "4", "4", "6", "7", "4", "4", "0", "7", "3", "7", "0", "9", "5",
     "5", "1", "6", "1", "5" >>

\* a > lim for two numbers written without leading zeros.
DigitsExceed(a, lim) ==
  \/ Len(a) > Len(lim)
  \/ /\ Len(a) = Len(lim)
     /\ \E i \in 1..Len(a) :
          /\ DigitValue(a[i]) > DigitValue(lim[i])
          /\ \A j \in 1..(i - 1) : a[j] = lim[j]

\* The loop of strconv.ParseUint(s, 10, 64) over the characters cs, with
\* acc the number read so far: it stops with "invalid syntax" at the first
\* character that is no digit and with "value out of range" at the first
\* digit with which the number passes 1<<64 - 1, whichever comes first.
RECURSIVE ScanDigits(_, _)
ScanDigits(cs, acc) ==
  IF cs = << >> THEN ""
  ELSE IF DigitValue(Head(cs)) < 0 THEN "invalid syntax"
  ELSE LET n == StripZeros(Append(acc, Head(cs))) IN
       IF DigitsExceed(n, MaxUint64Digits) THEN "value out of range"
       ELSE ScanDigits(Tail(cs), n)

\* strconv.ParseInt(s, 10, 64): an optional sign, then ParseUint of the
\* rest, then the int64 range: at most 1<<63 - 1, or 1<<63 after "-".  why
\* is the text of the *NumError's Err.  (The value is computed for numbers
\* within this module's integers.)
ParseInt(cs) ==
  LET signed == cs # << >> /\ Head(cs) \in {"+", "-"}
      neg == signed /\ Head(cs) = "-"
      digits == IF signed THEN Tail(cs) ELSE cs
      scan == IF digits = << >> THEN "invalid syntax" ELSE ScanDigits(digits, << >>)
      limit == IF neg THEN [MaxInt64Digits EXCEPT ![Len(MaxInt64Digits)] = "8"]
               ELSE MaxInt64Digits IN
  IF scan # "" THEN [ok |-> FALSE, value |-> 0, why |-> scan]
  ELSE IF DigitsExceed(StripZeros(digits), limit)
  THEN [ok |-> FALSE, value |-> 0, why |-> "value out of range"]
  ELSE [ok |-> TRUE, why |-> "",
        value |-> IF neg THEN 0 - DigitsValue(digits, 0) ELSE DigitsValue(digits, 0)]

\* parseContentLength
parseContentLength(value) ==
  LET trimmed == TrimSpace(value)
      parsed == ParseInt(trimmed) IN
  IF ~parsed.ok
  THEN [value |-> 0,
        err |-> "invalid content length " \o Quote(trimmed)
                  \o ": strconv.ParseInt: parsing " \o Quote(trimmed)
                  \o ": " \o parsed.why]
  ELSE IF parsed.value < 0
  THEN [value |-> 0,
        err |-> "invalid content length " \o Quote(trimmed) \o ": negative value"]
  ELSE [value |-> parsed.value, err |-> ""]

\* sizeFromResult: the Content-Length header when there is one, else the
\* length of the body; the empty Result has neither.
sizeFromResult(site, url, res) ==
  IF res.status # 0 /\ Site(site)[url].clen # << >>
  THEN parseContentLength(Site(site)[url].clen)
  ELSE IF res.status = 0
  THEN [value |-> 0, err |-> "unable to determine asset size"]
  ELSE [value |-> Site(site)[url].size, err |-> ""]

\* strings.Join(parts, ": ")
RECURSIVE JoinParts(_)
JoinParts(parts) ==
  IF parts = << >> THEN ""
  ELSE IF Len(parts) = 1 THEN parts[1]
  ELSE parts[1] \o ": " \o JoinParts(Tail(parts))

\* fetchAssetResult, given what Fetcher.Fetch returned for the asset.
fetchAssetResult(site, url, res) ==
  LET errMsg == IF res.err # "nil" THEN errorString(res) ELSE "" IN
  IF res.err # "nil" /\ res.status = 0
  THEN [statusCode |-> 0, sizeBytes |-> 0, err |-> errMsg]
  ELSE LET sz == sizeFromResult(site, url, res)
           parts == (IF res.status >= 400
                     THEN << "http status " \o ToString(res.status) >> ELSE << >>)
                    \o (IF errMsg # "" THEN << errMsg >> ELSE << >>)
                    \o (IF sz.err # "" THEN << sz.err >> ELSE << >>) IN
       [statusCode |-> res.status,
        sizeBytes |-> IF sz.err = "" THEN sz.value ELSE 0,
        err |-> JoinParts(parts)]

\* The zero assetFetchResult.
ZeroAssetResult == [statusCode |-> 0, sizeBytes |-> 0, err |-> ""]

\* The result getAsset gives for a cancelled wait or a failed acquireFetch.
CtxAssetResult == [statusCode |-> 0, sizeBytes |-> 0, err |-> "context canceled"]

buildAssetFromResult(url, type, r) ==
  [url |-> url, type |-> type, statusCode |-> r.statusCode,
   sizeBytes |-> r.sizeBytes, error |-> r.err]

(***************************************************************************)
(* Crawl workers: analyzer.worker and analyzer.processJob.                 *)
(***************************************************************************)
\* processJob's return for an ok page: pageResult{job, page, links}.
FinishPage(r) ==
  [r EXCEPT !.pc = "send",
            !.out = [job |-> r.job, page |-> r.page, links |-> r.links,
                     err |-> "nil"]]

\* page.Assets = a.collectAssets(...): start with the first resolved asset,
\* or return at once when the page has none.
StartAssets(r, site) ==
  LET as == resolveAssets(r.job.url,
                          BodyOf(site, r.job.url, r.page.httpStatus).assets) IN
  IF as = << >> THEN FinishPage(r)
  ELSE [r EXCEPT !.pc = "assets", !.assets = as, !.aidx = 1]

\* The end of checkLinks: buildLinkResults, then dedupBrokenLinks.
AfterChecks(r, site) ==
  LET built == buildLinkResults(r.results, r.processed) IN
  StartAssets([r EXCEPT !.page.brokenLinks = Slice(dedupBrokenLinks(built[1])),
                        !.links = built[2]], site)

\* for job := range jobs: take the next job and call fetchWithCache, or
\* leave the loop when the channel is closed and drained.
WorkerRecv(w) ==
  /\ wk[w].pc = "idle"
  /\ \/ /\ jobs # << >>
        /\ jobs' = Tail(jobs)
        /\ wk' = [wk EXCEPT ![w] =
                    [IdleWorker EXCEPT !.pc = "fetch", !.job = Head(jobs),
                                       !.page = newPage(Head(jobs).url, Head(jobs).depth)]]
        /\ fc' = [fc EXCEPT ![WT(w)] = CallFetch(Head(jobs).url)]
     \/ /\ jobs = << >>
        /\ jobsChClosed
        /\ wk' = [wk EXCEPT ![w].pc = "exit"]
        /\ UNCHANGED << jobs, fc >>
  /\ UNCHANGED << fx, opts, ctxDone, jobsChClosed, results, resultsClosed, agg,
                  report, accepted, emitted, entries, fetchCache, fetchCalls,
                  fetchSem >>
  /\ UNCHANGED << lcVars, assetVars >>

NilSliceEmpty == [nil |-> FALSE, v |-> << >>]

\* page.BrokenLinks = nil; page.Assets = nil
NilCollections == NilSlice

\* processJob's error returns: the page with status error and the error
\* text, null collections, and pageResult{job, page, err}.
ErrorPage(r, text, err) ==
  LET page == [r.page EXCEPT !.status = "error", !.error = text,
                             !.brokenLinks = NilCollections,
                             !.assets = NilCollections] IN
  [r EXCEPT !.pc = "send", !.page = page,
            !.out = [job |-> r.job, page |-> page, links |-> << >>, err |-> err]]

\* processJob after fetchWithCache returned: the error page, or the parse
\* and the start of checkLinks.
WorkerFetched(w) ==
  /\ wk[w].pc = "fetch"
  /\ fc[WT(w)].pc = "ret"
  /\ LET res == fc[WT(w)].res
         r == [wk[w] EXCEPT !.page.httpStatus = res.status] IN
     IF res.err # "nil" \/ res.status >= 400
     THEN /\ wk' = [wk EXCEPT ![w] =
                      ErrorPage(r, errorString(res),
                                IF res.err = "nil" THEN "status" ELSE res.err)]
          /\ UNCHANGED resultCh
     ELSE IF BodyOf(opts.site, r.job.url, res.status).badhtml
     THEN /\ wk' = [wk EXCEPT ![w] = ErrorPage(r, "parse html", "parse")]
          /\ UNCHANGED resultCh
     ELSE LET resolved == resolveLinks(r.job.url,
                                       BodyOf(opts.site, r.job.url, res.status).links)
              ok == [r EXCEPT !.page.status = "ok"] IN
          IF Len(resolved) = 0
          THEN /\ wk' = [wk EXCEPT ![w] = StartAssets(ok, opts.site)]
               /\ UNCHANGED resultCh
          ELSE /\ wk' = [wk EXCEPT ![w] =
                           [ok EXCEPT !.pc = "feed", !.resolved = resolved,
                                      !.idx = 1, !.sent = 0, !.got = 0,
                                      !.results = [i \in 1..Len(resolved) |-> NoLinkCheck],
                                      !.processed = [i \in 1..Len(resolved) |-> FALSE]]]
               /\ resultCh' = [resultCh EXCEPT ![w] = << >>]
  /\ fc' = [fc EXCEPT ![WT(w)] = NoFrame]
  /\ UNCHANGED << fx, opts, ctxDone, entries, fetchCache, fetchCalls, fetchSem,
                  lcJobs, lcClosed, pool, probes >>
  /\ UNCHANGED << aggVars, assetVars >>

\* linkChecker.jobs has capacity workerCount*4 (newLinkChecker).
LcJobsCap == linkCheckPoolSize(opts) * 4

\* runLinkChecks, feedLoop: submit the next resolved link, or stop
\* submitting because the context is done.
WorkerFeed(w) ==
  /\ wk[w].pc = "feed"
  /\ LET r == wk[w]
         isLast == r.idx = Len(r.resolved) IN
     \/ /\ ctxDone
        /\ wk' = [wk EXCEPT ![w] =
                    IF r.sent = 0 THEN AfterChecks(r, opts.site)
                    ELSE [r EXCEPT !.pc = "collect"]]
        /\ UNCHANGED << lcJobs, probes >>
     \/ /\ Len(lcJobs) < LcJobsCap
        /\ lcJobs' = Append(lcJobs, [idx |-> r.idx, url |-> r.resolved[r.idx],
                                     owner |-> w])
        /\ probes' = probes \cup {[url |-> r.resolved[r.idx], depth |-> r.job.depth,
                                   page |-> r.job.url]}
        /\ wk' = [wk EXCEPT ![w] =
                    [r EXCEPT !.idx = r.idx + 1, !.sent = r.sent + 1,
                              !.pc = IF isLast THEN "collect" ELSE "feed"]]
  /\ UNCHANGED << fx, opts, ctxDone, lcClosed, pool, resultCh >>
  /\ UNCHANGED << aggVars, assetVars, fetchVars, fetchSem >>

\* runLinkChecks, for range sent: receive one outcome and store it at its
\* index; after the last one checkLinks returns.
WorkerCollect(w) ==
  /\ wk[w].pc = "collect"
  /\ resultCh[w] # << >>
  /\ LET m == Head(resultCh[w])
         r == [wk[w] EXCEPT !.results[m.idx] = m.check,
                            !.processed[m.idx] = TRUE,
                            !.got = wk[w].got + 1] IN
     wk' = [wk EXCEPT ![w] = IF r.got = r.sent THEN AfterChecks(r, opts.site) ELSE r]
  /\ resultCh' = [resultCh EXCEPT ![w] = Tail(@)]
  /\ UNCHANGED << fx, opts, ctxDone, lcJobs, lcClosed, pool, probes >>
  /\ UNCHANGED << aggVars, assetVars, fetchVars, fetchSem >>

\* results <- result
WorkerSend(w) ==
  /\ wk[w].pc = "send"
  /\ Len(results) < WorkerCount(opts)
  /\ results' = Append(results, wk[w].out)
  /\ wk' = [wk EXCEPT ![w] = IdleWorker]
  /\ UNCHANGED << fx, opts, ctxDone, jobs, jobsChClosed, resultsClosed, agg, report,
                  accepted, emitted >>
  /\ UNCHANGED << lcVars, assetVars, fetchVars, fetchSem >>

(***************************************************************************)
(* analyzer.getAsset, called by crawl worker w for wk[w].assets[aidx].     *)
(***************************************************************************)
\* resolved = append(resolved, asset): the next asset, or the end of
\* collectAssets and of processJob.
AssetDone(r, asset) ==
  LET r2 == [r EXCEPT !.page.assets = Slice(Append(r.page.assets.v, asset)),
                      !.aidx = r.aidx + 1, !.aentry = 0] IN
  IF r2.aidx > Len(r2.assets) THEN FinishPage(r2) ELSE [r2 EXCEPT !.pc = "assets"]

\* entry := &assetCacheEntry{ready: make(chan struct{})}
\* writes and tries are history, as in a fetchCacheEntry.
NewAssetEntry ==
  [ready |-> FALSE, result |-> ZeroAssetResult, writes |-> 0, tries |-> 0]

\* a.assetMu.Lock() ... Unlock(): find the entry, or insert a new one.
GaLock(w) ==
  /\ wk[w].pc = "assets"
  /\ LET u == wk[w].assets[wk[w].aidx].url IN
     IF assetCache[u] # 0
     THEN /\ wk' = [wk EXCEPT ![w].pc = "await", ![w].aentry = assetCache[u]]
          /\ UNCHANGED << assetEntries, assetCache >>
     ELSE /\ assetEntries' = Append(assetEntries, NewAssetEntry)
          /\ assetCache' = [assetCache EXCEPT ![u] = Len(assetEntries) + 1]
          /\ wk' = [wk EXCEPT ![w].pc = "aacquire", ![w].aentry = Len(assetEntries) + 1]
  /\ UNCHANGED << fx, opts, ctxDone, fetchSem, assetCalls >>
  /\ UNCHANGED << aggVars, lcVars, fetchVars >>

\* select { case <-ready: ...; case <-ctx.Done(): ... }
GaWait(w) ==
  /\ wk[w].pc = "await"
  /\ LET a == wk[w].assets[wk[w].aidx] IN
     \/ /\ assetEntries[wk[w].aentry].ready
        /\ wk' = [wk EXCEPT ![w] =
                    AssetDone(wk[w], buildAssetFromResult(a.url, a.type,
                                       assetEntries[wk[w].aentry].result))]
     \/ /\ ctxDone
        /\ wk' = [wk EXCEPT ![w] =
                    AssetDone(wk[w], buildAssetFromResult(a.url, a.type, CtxAssetResult))]
  /\ UNCHANGED << fx, opts, ctxDone, fetchSem >>
  /\ UNCHANGED << aggVars, lcVars, fetchVars, assetVars >>

\* a.acquireFetch(ctx) in getAsset; on success fetchAssetResult calls
\* Fetcher.Fetch; on failure the entry is deleted from the map under the
\* mutex.
GaAcquire(w) ==
  /\ wk[w].pc = "aacquire"
  /\ LET a == wk[w].assets[wk[w].aidx]
         e == wk[w].aentry IN
     \/ /\ ~ctxDone
        /\ fetchSem < normalizeMaxConcurrentFetch(opts)
        /\ fetchSem' = fetchSem + 1
        /\ assetCalls' = [assetCalls EXCEPT ![a.url] = @ + 1]
        /\ wk' = [wk EXCEPT ![w].pc = "afetch"]
        /\ UNCHANGED << assetEntries, assetCache >>
     \/ /\ ctxDone
        /\ assetCache' = [assetCache EXCEPT ![a.url] = 0]
        /\ wk' = [wk EXCEPT ![w].pc = "afailed"]
        /\ UNCHANGED << assetEntries, fetchSem, assetCalls >>
  /\ UNCHANGED << fx, opts, ctxDone >>
  /\ UNCHANGED << aggVars, lcVars, fetchVars >>

\* After the mutex is released on the failure path: entry.result is
\* written, close(entry.ready), and the asset is built from it.
GaFailed(w) ==
  /\ wk[w].pc = "afailed"
  /\ LET a == wk[w].assets[wk[w].aidx]
         e == wk[w].aentry IN
     /\ assetEntries' = [assetEntries EXCEPT ![e] =
                           [ready |-> TRUE, result |-> CtxAssetResult,
                            writes |-> @.writes + 1, tries |-> 0]]
     /\ wk' = [wk EXCEPT ![w] =
                 AssetDone(wk[w], buildAssetFromResult(a.url, a.type,
                                                       CtxAssetResult))]
  /\ UNCHANGED << fx, opts, ctxDone, fetchSem, assetCache, assetCalls >>
  /\ UNCHANGED << aggVars, lcVars, fetchVars >>

\* fetchAssetResult returns: store it, close(entry.ready), releaseFetch.
GaFetchEnd(w) ==
  /\ wk[w].pc = "afetch"
  /\ LET a == wk[w].assets[wk[w].aidx]
         e == wk[w].aentry IN
     \E run \in FetchRuns(opts, a.url, ctxDone) :
       LET ar == fetchAssetResult(opts.site, a.url, run.res) IN
       /\ assetEntries' = [assetEntries EXCEPT ![e] =
                             [ready |-> TRUE, result |-> ar, writes |-> @.writes + 1,
                              tries |-> run.tries]]
       /\ wk' = [wk EXCEPT ![w] =
                   AssetDone(wk[w], buildAssetFromResult(a.url, a.type, ar))]
  /\ fetchSem' = fetchSem - 1
  /\ UNCHANGED << fx, opts, ctxDone, assetCache, assetCalls >>
  /\ UNCHANGED << aggVars, lcVars, fetchVars >>

(***************************************************************************)
(* The link-check pool: newLinkChecker's goroutines.                       *)
(***************************************************************************)
\* for job := range jobs: take a job and call checkBrokenLink, or exit.
PoolRecv(p) ==
  /\ pool[p].pc = "idle"
  /\ \/ /\ lcJobs # << >>
        /\ lcJobs' = Tail(lcJobs)
        /\ pool' = [pool EXCEPT ![p] = [pc |-> "fetch", job |-> Head(lcJobs)]]
        /\ fc' = [fc EXCEPT ![PT(p)] = CallFetch(Head(lcJobs).url)]
     \/ /\ lcJobs = << >>
        /\ lcClosed
        /\ pool' = [pool EXCEPT ![p].pc = "exit"]
        /\ UNCHANGED << lcJobs, fc >>
  /\ UNCHANGED << fx, opts, ctxDone, wk, lcClosed, resultCh, probes, entries,
                  fetchCache, fetchCalls, fetchSem >>
  /\ UNCHANGED << aggVars, assetVars >>

resultChCapOne(resolved) == 1

\* resultCh := make(chan linkCheckResult, len(resolved)) in runLinkChecks.
resultChCap(resolved) == Len(resolved)

\* job.resultCh <- linkCheckResult{...}: the send waits while the page's
\* result channel is full.
PoolSend(p) ==
  /\ pool[p].pc = "fetch"
  /\ fc[PT(p)].pc = "ret"
  /\ Len(resultCh[pool[p].job.owner]) < resultChCap(wk[pool[p].job.owner].resolved)
  /\ LET job == pool[p].job IN
     resultCh' = [resultCh EXCEPT ![job.owner] =
                    Append(@, [idx |-> job.idx,
                               check |-> checkBrokenLink(job.url, fc[PT(p)].res)])]
  /\ pool' = [pool EXCEPT ![p] = IdlePool]
  /\ fc' = [fc EXCEPT ![PT(p)] = NoFrame]
  /\ UNCHANGED << fx, opts, ctxDone, wk, lcJobs, lcClosed, probes, entries,
                  fetchCache, fetchCalls, fetchSem >>
  /\ UNCHANGED << aggVars, assetVars >>

(***************************************************************************)
(* The aggregator: analyzer.run, drainResults and the aggregator methods.  *)
(***************************************************************************)
flushCommittedOnce(pp, nc, pages) ==
  IF \E e \in pp : e.seq = nc
  THEN LET e == CHOOSE x \in pp : x.seq = nc
       IN [pendingPages |-> pp \ {e}, nextCommit |-> nc + 1, pages |-> Append(pages, e.page)]
  ELSE [pendingPages |-> pp, nextCommit |-> nc, pages |-> pages]

RECURSIVE flushCommittedAny(_, _, _)
flushCommittedAny(pp, nc, pages) ==
  IF pp # {}
  THEN LET e == CHOOSE x \in pp : \A y \in pp : y.seq <= x.seq
       IN flushCommittedAny(pp \ {e}, nc + 1, Append(pages, e.page))
  ELSE [pendingPages |-> pp, nextCommit |-> nc, pages |-> pages]

\* aggregator.flushCommitted over (pendingPages, nextCommit, report.Pages).
RECURSIVE flushCommitted(_, _, _)
flushCommitted(pp, nc, pages) ==
  IF \E e \in pp : e.seq = nc
  THEN LET e == CHOOSE x \in pp : x.seq = nc
       IN flushCommitted(pp \ {e}, nc + 1, Append(pages, e.page))
  ELSE [pendingPages |-> pp, nextCommit |-> nc, pages |-> pages]

closeJobsWhenIdle(a) == a.pending = 0

closeJobsUnlessClosed(a) == ~a.jobsClosed

\* aggregator.closeJobsIfNeeded closes the channel in this state.
closeJobsIfNeeded(a) == a.pending = 0 /\ ~a.jobsClosed

\* closes counts the close(a.jobs) statements executed.
AfterClose(a) == [a EXCEPT !.jobsClosed = @ \/ closeJobsIfNeeded(a),
                           !.closes = @ + (IF closeJobsIfNeeded(a) THEN 1 ELSE 0)]

latchAnyDepth(depth, err, cur) ==
  IF err # "nil" /\ cur = "nil" THEN err ELSE cur

\* handleResult: the root's error is latched as the analysis error.
latchErr(depth, err, cur) ==
  IF depth = 0 /\ err # "nil" /\ cur = "nil" THEN err ELSE cur

\* analyzeReport reaches analyzer.run: the URL is given and parses, and
\* there is an HTTP client.
RunsCrawl(o) == o.URL # 0 /\ parseRootURL(o.URL) # 0 /\ o.HTTPClient

\* agg.enqueue of the root and agg.closeJobsIfNeeded, in analyzer.run.  The
\* root is not in seen and the channel is empty; the select may still take
\* ctx.Done() when the context is already done.
AggSeed ==
  /\ agg.pc = "seed"
  /\ RunsCrawl(opts)
  /\ \/ /\ LET a == [agg EXCEPT !.pc = "drain", !.seen = @ \cup {parseRootURL(opts.URL)},
                                !.nextSeq = @ + 1, !.pending = @ + 1] IN
           /\ agg' = AfterClose(a)
           /\ jobsChClosed' = (jobsChClosed \/ closeJobsIfNeeded(a))
        /\ jobs' = Append(jobs, [url |-> parseRootURL(opts.URL), depth |-> 0,
                                 seq |-> agg.nextSeq])
        /\ accepted' = accepted \cup {[url |-> parseRootURL(opts.URL), depth |-> 0,
                                       seq |-> agg.nextSeq, from |-> 0]}
     \/ /\ ctxDone
        /\ LET a == [agg EXCEPT !.pc = "drain"] IN
           /\ agg' = AfterClose(a)
           /\ jobsChClosed' = (jobsChClosed \/ closeJobsIfNeeded(a))
        /\ UNCHANGED << jobs, accepted >>
  /\ UNCHANGED << fx, opts, ctxDone, results, resultsClosed, report, emitted, wk, fetchSem >>
  /\ UNCHANGED << lcVars, assetVars, fetchVars >>

\* drainResults receives a result; onResult: pending--, then handleResult
\* up to its loop over result.links (the loop is AggLink), or all of
\* onResult when there is no loop to run.
AggRecv ==
  /\ agg.pc = "drain"
  /\ results # << >>
  /\ LET result == Head(results)
         f == flushCommitted(agg.pendingPages \cup
                               {[seq |-> result.job.seq, page |-> result.page]},
                             agg.nextCommit, report)
         a == [agg EXCEPT
                 !.pending = @ - 1,
                 !.pendingPages = f.pendingPages,
                 !.nextCommit = f.nextCommit,
                 !.analysisErr = latchErr(result.job.depth, result.err, @),
                 !.errWrites = IF latchErr(result.job.depth, result.err,
                                           agg.analysisErr) # agg.analysisErr
                               THEN @ + 1 ELSE @] IN
     /\ report' = f.pages
     /\ IF result.job.depth + 1 > maxDepth \/ result.links = << >>
        THEN /\ agg' = AfterClose(a)
             /\ jobsChClosed' = (jobsChClosed \/ closeJobsIfNeeded(a))
        ELSE /\ agg' = [a EXCEPT !.pc = "links", !.cur = result, !.idx = 1]
             /\ UNCHANGED jobsChClosed
  /\ results' = Tail(results)
  /\ UNCHANGED << fx, opts, ctxDone, jobs, resultsClosed, accepted, emitted, wk, fetchSem >>
  /\ UNCHANGED << lcVars, assetVars, fetchVars >>

seenNever(seen, url) == FALSE

\* enqueue's first test: a.state.seen[job.url]
alreadySeen(seen, url) == url \in seen

\* handleResult's loop, one link: the same-origin gate, then enqueue (the
\* seen test, then the select between the send and ctx.Done()).  After the
\* last link onResult ends with closeJobsIfNeeded.
AggLink ==
  /\ agg.pc = "links"
  /\ LET link == agg.cur.links[agg.idx]
         isLast == agg.idx = Len(agg.cur.links)
         Step(a) == IF isLast
                    THEN AfterClose([a EXCEPT !.pc = "drain", !.cur = NoResult, !.idx = 0])
                    ELSE [a EXCEPT !.idx = @ + 1]
         Closes(a) == isLast /\ closeJobsIfNeeded(a) IN
     IF ~SameOrigin(parseRootURL(opts.URL), link) \/ alreadySeen(agg.seen, link)
     THEN /\ agg' = Step(agg)
          /\ jobsChClosed' = (jobsChClosed \/ Closes(agg))
          /\ UNCHANGED << jobs, accepted >>
     ELSE \/ /\ Len(jobs) < JobBuffer(opts)
             /\ jobs' = Append(jobs, [url |-> link, depth |-> agg.cur.job.depth + 1,
                                      seq |-> agg.nextSeq])
             /\ accepted' = accepted \cup
                              {[url |-> link, depth |-> agg.cur.job.depth + 1,
                                seq |-> agg.nextSeq, from |-> agg.cur.job.depth]}
             /\ LET a == [agg EXCEPT !.seen = @ \cup {link}, !.nextSeq = @ + 1,
                                     !.pending = @ + 1] IN
                /\ agg' = Step(a)
                /\ jobsChClosed' = (jobsChClosed \/ Closes(a))
          \/ /\ ctxDone
             /\ agg' = Step(agg)
             /\ jobsChClosed' = (jobsChClosed \/ Closes(agg))
             /\ UNCHANGED << jobs, accepted >>
  /\ UNCHANGED << fx, opts, ctxDone, results, resultsClosed, report, emitted, wk, fetchSem >>
  /\ UNCHANGED << lcVars, assetVars, fetchVars >>

\* drainResults, case <-ctx.Done(): canceled = true; closeJobsIfNeeded.
AggCancel ==
  /\ agg.pc = "drain"
  /\ ~agg.canceled
  /\ ctxDone
  /\ agg' = AfterClose([agg EXCEPT !.canceled = TRUE])
  /\ jobsChClosed' = (jobsChClosed \/ closeJobsIfNeeded(agg))
  /\ UNCHANGED << fx, opts, ctxDone, jobs, results, resultsClosed, report, accepted,
                  emitted, wk, fetchSem >>
  /\ UNCHANGED << lcVars, assetVars, fetchVars >>

\* The goroutine of run: workersWG.Wait(); close(results).
CloseResults ==
  /\ ~resultsClosed
  /\ \A w \in WorkerIds : wk[w].pc \in {"exit", "off"}
  /\ resultsClosed' = TRUE
  /\ UNCHANGED << fx, opts, ctxDone, jobs, jobsChClosed, results, agg, report,
                  accepted, emitted, wk, fetchSem >>
  /\ UNCHANGED << lcVars, assetVars, fetchVars >>

\* drainResults sees the results channel closed and returns; run's deferred
\* a.linkCheck.stop() closes the link-check job channel.
AggReturn ==
  /\ agg.pc = "drain"
  /\ results = << >>
  /\ resultsClosed
  /\ agg' = [agg EXCEPT !.pc = "stop"]
  /\ lcClosed' = TRUE
  /\ UNCHANGED << fx, opts, ctxDone, jobs, jobsChClosed, results, resultsClosed,
                  report, accepted, emitted, wk, fetchSem, lcJobs, pool,
                  resultCh, probes >>
  /\ UNCHANGED << assetVars, fetchVars >>

(***************************************************************************)
(* Report emission: Analyze -> marshalReport -> sortPages.                 *)
(***************************************************************************)
PageLessDepthOnly(p, q) == p.depth < q.depth

\* The less function of sortPages.
PageLess(p, q) ==
  IF p.depth # q.depth THEN p.depth < q.depth
  ELSE StrLess(URLString(p.url), URLString(q.url))

\* sort.SliceStable as a stable insertion sort: each page goes after the
\* pages that are not greater than it.
RECURSIVE InsertPage(_, _)
InsertPage(sorted, p) ==
  IF sorted = << >> THEN << p >>
  ELSE IF PageLess(p, Head(sorted)) THEN << p >> \o sorted
  ELSE << Head(sorted) >> \o InsertPage(Tail(sorted), p)

RECURSIVE sortPagesFrom(_, _, _)
sortPagesFrom(pages, i, acc) ==
  IF i > Len(pages) THEN acc
  ELSE sortPagesFrom(pages, i + 1, InsertPage(acc, pages[i]))

sortPages(pages) == sortPagesFrom(pages, 1, << >>)

\* The page analyzeReport itself appends when it returns early: newPage
\* with status and error set.
EarlyPage(url, text) ==
  [newPage(url, 0) EXCEPT !.status = "error", !.error = text]

\* analyzeReport's returns before the crawl (and Analyze's marshalReport):
\* no URL, a root URL that does not parse, no HTTP client.
AnalyzeEarly ==
  /\ agg.pc = "seed"
  /\ ~RunsCrawl(opts)
  /\ LET pages == IF opts.URL = 0 THEN << >>
                  ELSE IF parseRootURL(opts.URL) = 0
                       THEN << EarlyPage(opts.URL,
                                         "invalid url: " \o parseRootURLError(opts.URL)) >>
                  ELSE << EarlyPage(parseRootURL(opts.URL), "http client is required") >>
         err == IF opts.URL = 0 THEN "url is required"
                ELSE IF parseRootURL(opts.URL) = 0
                     THEN "invalid root url: " \o parseRootURLError(opts.URL)
                ELSE "http client is required" IN
     /\ report' = pages
     /\ emitted' = [done |-> TRUE, pages |-> sortPages(pages), err |-> err]
  /\ agg' = [agg EXCEPT !.pc = "end"]
  /\ UNCHANGED << fx, opts, ctxDone, jobs, jobsChClosed, results, resultsClosed,
                  accepted, wk, fetchSem >>
  /\ UNCHANGED << lcVars, assetVars, fetchVars >>

\* linkCheck.stop's wg.Wait() is over, run and analyzeReport return, and
\* Analyze marshals the sorted report.
Emit ==
  /\ agg.pc = "stop"
  /\ \A p \in PoolIds : pool[p].pc \in {"exit", "off"}
  /\ agg' = [agg EXCEPT !.pc = "end"]
  /\ emitted' = [done |-> TRUE, pages |-> sortPages(report), err |-> agg.analysisErr]
  /\ UNCHANGED << fx, opts, ctxDone, jobs, jobsChClosed, results, resultsClosed,
                  report, accepted, wk, fetchSem >>
  /\ UNCHANGED << lcVars, assetVars, fetchVars >>

\* The caller cancels the context of the invocation.
Cancel ==
  /\ opts.ctx = "cancel"
  /\ ~ctxDone
  /\ agg.pc # "end"
  /\ ctxDone' = TRUE
  /\ UNCHANGED << fx, opts, wk, fetchSem >>
  /\ UNCHANGED << aggVars, lcVars, assetVars, fetchVars >>

Next ==
  \/ AnalyzeEarly
  \/ AggSeed
  \/ AggRecv
  \/ AggLink
  \/ AggCancel
  \/ AggReturn
  \/ CloseResults
  \/ Emit
  \/ Cancel
  \/ \E w \in WorkerIds : WorkerRecv(w)
  \/ \E w \in WorkerIds : WorkerFetched(w)
  \/ \E w \in WorkerIds : WorkerFeed(w)
  \/ \E w \in WorkerIds : WorkerCollect(w)
  \/ \E w \in WorkerIds : WorkerSend(w)
  \/ \E w \in WorkerIds : GaLock(w)
  \/ \E w \in WorkerIds : GaWait(w)
  \/ \E w \in WorkerIds : GaAcquire(w)
  \/ \E w \in WorkerIds : GaFailed(w)
  \/ \E w \in WorkerIds : GaFetchEnd(w)
  \/ \E p \in PoolIds : PoolRecv(p)
  \/ \E p \in PoolIds : PoolSend(p)
  \/ \E t \in Threads : FwcLock(t)
  \/ \E t \in Threads : FwcWait(t)
  \/ \E t \in Threads : FwcAcquire(t)
  \/ \E t \in Threads : FwcFailed(t)
  \/ \E t \in Threads : FwcFetchEnd(t)

(***************************************************************************)
(* Properties of the crawl (Spec).                                         *)
(***************************************************************************)
\* C1 (single-flight): however many crawl workers and link-check workers
\* call fetchWithCache for a URL, Fetcher.Fetch is invoked through it at
\* most once for that URL.
C1_SingleFlight == \A u \in URLs : fetchCalls[u] <= 1

\* C1's case: one caller is inside Fetch for a URL while another caller of
\* fetchWithCache for the same URL waits on the entry's ready signal.
C1_Witness ==
  \E t1, t2 \in Threads :
    /\ t1 # t2
    /\ fc[t1].pc = "fetch"
    /\ fc[t2].pc = "wait"
    /\ fc[t1].url = fc[t2].url
    /\ fetchCalls[fc[t1].url] = 1

\* C2 (no enqueue/result deadlock): no state is reachable in which the
\* context is not cancelled, the aggregator is blocked sending a job on the
\* full jobs channel and every worker is blocked sending a result on the
\* full results channel.
AggBlockedOnEnqueue ==
  /\ agg.pc = "links"
  /\ SameOrigin(RootURL, agg.cur.links[agg.idx])
  /\ agg.cur.links[agg.idx] \notin agg.seen
  /\ Len(jobs) = JobBuffer(opts)
  /\ ~ctxDone

AllWorkersBlockedOnSend ==
  /\ Len(results) = WorkerCount(opts)
  /\ \A w \in WorkerIds : wk[w].pc \in {"send", "off"}

C2_NoEnqueueDeadlock == ~(AggBlockedOnEnqueue /\ AllWorkersBlockedOnSend)

\* C3 (report order): the emitted pages are sorted by ascending depth and,
\* within equal depth, by ascending URL.
C3_EmittedSorted ==
  emitted.done =>
    \A i, j \in 1..Len(emitted.pages) :
      i < j =>
        \/ emitted.pages[i].depth < emitted.pages[j].depth
        \/ /\ emitted.pages[i].depth = emitted.pages[j].depth
           /\ ~StrLess(URLString(emitted.pages[j].url), URLString(emitted.pages[i].url))

\* C3's case: a report of at least three pages that the aggregator committed
\* in an order other than the emitted one.
C3_Witness ==
  /\ emitted.done
  /\ Len(emitted.pages) >= 3
  /\ emitted.pages # report

\* C4 (same-origin gate for crawling): every crawl job ever accepted, and
\* every page of a crawl's report, is for a URL with the root's scheme and
\* the root's host-with-port.
OriginOf(u) == << UrlTable[u].scheme, UrlTable[u].host >>

C4_CrawlSameOrigin ==
  /\ \A j \in accepted : OriginOf(j.url) = OriginOf(RootURL)
  /\ RunsCrawl(opts) =>
       \A i \in 1..Len(report) : OriginOf(report[i].url) = OriginOf(RootURL)

\* C4's case: the aggregator handled a page whose candidate links include
\* one that differs from the root only in scheme and one that differs only
\* in port, and accepted a same-origin link of that page.
C4_Witness ==
  /\ agg.pc = "end"
  /\ opts.site = "origin"
  /\ fetchCalls[5] = 1
  /\ fetchCalls[6] = 1
  /\ \E j \in accepted : j.url = 2

\* C5 (maximum-depth boundary): a page at the maximum depth causes no link
\* probe (none submitted, none fetched), no new crawl job, and has an empty
\* broken_links list.
C5_MaxDepthNoProbes ==
  /\ \A p \in probes : p.depth # maxDepth
  /\ \A j \in accepted : j.depth > 0 => j.from # maxDepth
  /\ \A i \in 1..Len(report) :
       report[i].depth = maxDepth => report[i].brokenLinks.v = << >>

\* C6 (same-origin gate for link probing): link-check jobs are submitted
\* only for links of the root's origin, and no BrokenLink entry exists for a
\* link of another origin.
C6_ProbesSameOrigin ==
  /\ \A p \in probes : OriginOf(p.url) = OriginOf(RootURL)
  /\ \A i \in 1..Len(report) :
       \A k \in 1..Len(report[i].brokenLinks.v) :
         OriginOf(report[i].brokenLinks.v[k].url) = OriginOf(RootURL)

RootPageFailed(pages) ==
  \E i \in 1..Len(pages) : pages[i].depth = 0 /\ pages[i].status = "error"

\* C12 (root-only error propagation): a crawl returns an error exactly when
\* its root page failed; the analysis error is only ever set from the
\* failed root page, and it is written at most once.
C12_RootOnlyError ==
  /\ agg.errWrites <= 1
  /\ agg.analysisErr # "nil" => RootPageFailed(report)
  /\ (emitted.done /\ RunsCrawl(opts)) =>
       (emitted.err # "nil" <=> RootPageFailed(emitted.pages))

\* A crawl returned no error although a page below the root failed and the
\* root has a broken link and a failed asset.
C12_Witness ==
  /\ emitted.done
  /\ RunsCrawl(opts)
  /\ emitted.err = "nil"
  /\ \E i \in 1..Len(emitted.pages) :
       emitted.pages[i].depth > 0 /\ emitted.pages[i].status = "error"
  /\ \E i \in 1..Len(emitted.pages) :
       /\ emitted.pages[i].depth = 0
       /\ emitted.pages[i].brokenLinks.v # << >>
       /\ \E k \in 1..Len(emitted.pages[i].assets.v) :
            emitted.pages[i].assets.v[k].error # ""

\* C13 (error pages carry null collections): in every returned report a
\* page with status error has null broken_links and null assets, whatever
\* produced the page.
C13_ErrorPagesNull ==
  emitted.done =>
    \A i \in 1..Len(emitted.pages) :
      emitted.pages[i].status = "error" =>
        /\ emitted.pages[i].brokenLinks.nil
        /\ emitted.pages[i].assets.nil

\* The URL answers with a status below 400 and a body that parses.
AnswersOk(o, u) ==
  /\ ~Site(o.site)[u].neterr
  /\ Site(o.site)[u].status < 400
  /\ ~Site(o.site)[u].badhtml

\* C14 (page status): every page of a returned report has status ok or
\* error; a page is ok only if its URL answered with a status below 400 and
\* a body that parsed, and, unless the invocation was cancelled, it is ok
\* whenever its URL does; an ok page has http_status in 200..399 and
\* non-null broken_links and assets.
C14_PageStatus ==
  emitted.done =>
    \A i \in 1..Len(emitted.pages) :
      LET page == emitted.pages[i] IN
      /\ page.status \in {"ok", "error"}
      /\ page.status = "ok" =>
           /\ page.httpStatus >= 200 /\ page.httpStatus <= 399
           /\ ~page.brokenLinks.nil
           /\ ~page.assets.nil
           /\ AnswersOk(opts, page.url)
      /\ (RunsCrawl(opts) /\ ~ctxDone /\ AnswersOk(opts, page.url)) =>
           page.status = "ok"

\* C15 (one request per URL across roles): with Retries = 0, for every URL
\* the fetches made for it as a crawled page or link probe (through the
\* fetch cache) and as an asset number at most one in an invocation.
C15_OneRequestPerURL ==
  opts.Retries = 0 => \A u \in URLs : fetchCalls[u] + assetCalls[u] <= 1

\* C16 (followers see the leader's result): every fetch-cache entry has its
\* result written once and its ready signal closed once, the signal being
\* closed exactly when the result is written; the caller that created the
\* entry returns what it wrote, and every caller that woke on the ready
\* signal returns that same result and error.
C16_FollowersSeeLeader ==
  /\ \A e \in 1..Len(entries) :
       /\ entries[e].writes <= 1
       /\ entries[e].closes <= 1
       /\ entries[e].ready <=> (entries[e].writes = 1 /\ entries[e].closes = 1)
  /\ \A t \in DOMAIN fc :
       (fc[t].pc = "ret" /\ fc[t].via \in {"first", "ready"}) =>
         /\ entries[fc[t].entry].ready
         /\ fc[t].res = entries[fc[t].entry].res

\* C16's case: a follower has woken on the ready signal of an entry whose
\* leader stored a real response.
C16_Witness ==
  \E t \in DOMAIN fc :
    /\ fc[t].pc = "ret"
    /\ fc[t].via = "ready"
    /\ entries[fc[t].entry].writes = 1
    /\ fc[t].res.status # 0


\* The report of a crawl as a function of the site and the options alone:
\* what an uncancelled Fetch returns for a URL, whether its page is ok, the
\* broken links, the links to crawl and the assets of its page, and the
\* pages within k links of the root.
RefAnswer(o, u) == CHOOSE r \in FetchReturns(o, u, FALSE) : TRUE

RefOk(o, u) ==
  LET r == RefAnswer(o, u) IN
  r.err = "nil" /\ r.status < 400 /\ ~BodyOf(o.site, u, r.status).badhtml

RefLinks(o, u) ==
  LET resolved == resolveLinks(u, BodyOf(o.site, u, RefAnswer(o, u).status).links)
      checks == [i \in 1..Len(resolved) |->
                   checkBrokenLink(resolved[i], RefAnswer(o, resolved[i]))]
      built == buildLinkResults(checks, [i \in 1..Len(resolved) |-> TRUE])
  IN << dedupBrokenLinks(built[1]), built[2] >>

RefAssets(o, u) ==
  LET as == resolveAssets(u, BodyOf(o.site, u, RefAnswer(o, u).status).assets) IN
  [i \in 1..Len(as) |->
     buildAssetFromResult(as[i].url, as[i].type,
                          fetchAssetResult(o.site, as[i].url, RefAnswer(o, as[i].url)))]

RefChildren(o, u) ==
  IF ~RefOk(o, u) THEN {}
  ELSE LET links == RefLinks(o, u)[2] IN
       { links[i] : i \in { k \in 1..Len(links) :
                              SameOrigin(parseRootURL(o.URL), links[k]) } }

RECURSIVE RefWithin(_, _)
RefWithin(o, k) ==
  IF k = 0 THEN { parseRootURL(o.URL) }
  ELSE LET near == RefWithin(o, k - 1) IN
       near \cup UNION { RefChildren(o, u) : u \in near }

RefDepth(o, u) ==
  CHOOSE k \in 0..normalizeMaxDepth(o.Depth) :
    u \in RefWithin(o, k) /\ (k = 0 \/ u \notin RefWithin(o, k - 1))

\* C18 (deterministic report): the report an uncancelled crawl emits is
\* fixed by the site and the options other than the worker count: its pages
\* are the URLs within max depth of the root, each at its distance from the
\* root, and every ok page carries the broken links and assets of its body.
C18_Deterministic ==
  (emitted.done /\ RunsCrawl(opts) /\ opts.ctx = "background") =>
    /\ { emitted.pages[i].url : i \in 1..Len(emitted.pages) }
         = RefWithin(opts, normalizeMaxDepth(opts.Depth))
    /\ \A i \in 1..Len(emitted.pages) :
         LET page == emitted.pages[i] IN
         /\ page.depth = RefDepth(opts, page.url)
         /\ page.status = "ok" =>
              /\ page.brokenLinks.v = RefLinks(opts, page.url)[1]
              /\ page.assets.v = RefAssets(opts, page.url)

\* The canonical identity of a URL as the report defines it: scheme, host
\* name in lower case, port (the scheme's default when none is written),
\* path with the root path "/" read as empty, query with the empty query
\* read as none.
CanonKey(u) ==
  LET r == UrlTable[u] IN
  << r.scheme, ToLower(Hostname(r.host)),
     IF Port(r.host) # "" THEN Port(r.host)
     ELSE IF r.scheme = "https" THEN "443" ELSE "80",
     IF r.path = "/" THEN "" ELSE r.path,
     IF r.query = "?" THEN "" ELSE r.query >>

\* The URL string is written in canonical form.
IsCanonical(u) ==
  LET r == UrlTable[u] IN
  /\ r.host = ToLower(r.host)
  /\ ~(r.scheme = "https" /\ Port(r.host) = "443")
  /\ ~(r.scheme = "http" /\ Port(r.host) = "80")
  /\ r.path # "/"
  /\ r.query # "?"

\* The links of an ok page that an uncancelled probe finds broken.
BrokenTargets(o, page) ==
  LET resolved == resolveLinks(page.url, BodyOf(o.site, page.url, page.httpStatus).links)
  IN { resolved[i] : i \in { k \in 1..Len(resolved) :
                               LET r == RefAnswer(o, resolved[k]) IN
                               r.err # "nil" \/ r.status >= 400 } }

\* C19 (canonical broken links): within a page of an emitted report no two
\* broken_links entries have the same canonical URL and every entry's URL
\* is written in canonical form; in an uncancelled crawl every broken link
\* of an ok page has an entry, so two broken URLs whose queries differ in
\* parameter order have two entries.
C19_CanonicalUnique ==
  emitted.done =>
    \A i \in 1..Len(emitted.pages) :
      LET page == emitted.pages[i]
          bl == page.brokenLinks.v IN
      /\ \A j, k \in 1..Len(bl) :
           j # k => CanonKey(bl[j].url) # CanonKey(bl[k].url)
      /\ \A j \in 1..Len(bl) : IsCanonical(bl[j].url)
      /\ (opts.ctx = "background" /\ page.status = "ok") =>
           \A u \in BrokenTargets(opts, page) :
             \E j \in 1..Len(bl) : CanonKey(bl[j].url) = CanonKey(u)

\* C19's case: the root of the canon site is reported with one entry for
\* the five spellings of /m, one for either order of /q's parameters and
\* one for the other host.
C19_Witness ==
  /\ emitted.done
  /\ opts.site = "canon"
  /\ Len(emitted.pages[1].brokenLinks.v) = 4
  /\ { emitted.pages[1].brokenLinks.v[j].url : j \in 1..4 } = {4, 13, 14, 15}

\* URL v is URL u with a slash appended to its non-root path.
TrailingSlashOf(v, u) ==
  /\ UrlTable[u].path = "/m"
  /\ UrlTable[v] = [UrlTable[u] EXCEPT !.path = "/m/"]

\* C20 (trailing-slash dedupe): when an ok page of an uncancelled crawl
\* links to two broken URLs that differ only by a trailing slash on a
\* non-root path, its broken_links has an entry for the form without the
\* slash and none for the form with it.
C20_TrailingSlash ==
  (emitted.done /\ opts.ctx = "background") =>
    \A i \in 1..Len(emitted.pages) :
      LET page == emitted.pages[i]
          bl == page.brokenLinks.v IN
      page.status = "ok" =>
        \A u, v \in BrokenTargets(opts, page) :
          TrailingSlashOf(v, u) =>
            /\ \E j \in 1..Len(bl) : bl[j].url = u
            /\ ~\E j \in 1..Len(bl) : bl[j].url = v

\* The asset URLs page u references: its asset references that resolve.
AssetTargets(o, u) ==
  { Resolve(u, Site(o.site)[u].assets[k].url) :
      k \in 1..Len(Site(o.site)[u].assets) } \ {0}

\* The types page u declares for asset URL v.
DeclaredTypes(o, u, v) ==
  { Site(o.site)[u].assets[k].type :
      k \in { j \in 1..Len(Site(o.site)[u].assets) :
                Resolve(u, Site(o.site)[u].assets[j].url) = v } }

\* C21 (asset cache): with Retries = 0, in a returned report every asset URL
\* referenced by an ok page was requested from the HTTP client exactly once
\* in the invocation; the page lists exactly one Asset entry for it, with a
\* type the page declares for it; and any two ok pages listing the URL
\* agree on its status, size and error.
C21_AssetCache ==
  (emitted.done /\ opts.Retries = 0) =>
    \A i \in 1..Len(emitted.pages) :
      LET page == emitted.pages[i] IN
      page.status = "ok" =>
        \A v \in AssetTargets(opts, page.url) :
          /\ fetchCalls[v] + assetCalls[v] = 1
          /\ Cardinality({ k \in 1..Len(page.assets.v) : page.assets.v[k].url = v }) = 1
          /\ \A k \in 1..Len(page.assets.v) :
               page.assets.v[k].url = v =>
                 /\ page.assets.v[k].type \in DeclaredTypes(opts, page.url, v)
                 /\ \A j \in 1..Len(emitted.pages) :
                      \A m \in 1..Len(emitted.pages[j].assets.v) :
                        emitted.pages[j].assets.v[m].url = v =>
                          /\ emitted.pages[j].assets.v[m].statusCode
                               = page.assets.v[k].statusCode
                          /\ emitted.pages[j].assets.v[m].sizeBytes
                               = page.assets.v[k].sizeBytes
                          /\ emitted.pages[j].assets.v[m].error = page.assets.v[k].error

\* The options carry a configuration error: no URL, a root URL without
\* scheme or host, or no HTTP client.
ConfigError(o) ==
  \/ o.URL = 0
  \/ UrlTable[o.URL].scheme = ""
  \/ UrlTable[o.URL].host = ""
  \/ ~o.HTTPClient

\* C22 (the report is always produced): an invocation that has returned has
\* returned a report; when the options carry a configuration error it
\* returned a non-nil error and a report of exactly one page, an error page
\* of depth 0 with an error text for the root URL, and no request was made.
C22_ConfigErrors ==
  /\ agg.pc = "end" => emitted.done
  /\ (emitted.done /\ ConfigError(opts)) =>
       /\ emitted.err # "nil"
       /\ Len(emitted.pages) = 1
       /\ emitted.pages[1].status = "error"
       /\ emitted.pages[1].error # ""
       /\ emitted.pages[1].depth = 0
       /\ emitted.pages[1].url \in {opts.URL, parseRootURL(opts.URL)}
       /\ \A u \in URLs : fetchCalls[u] = 0 /\ assetCalls[u] = 0

\* The crawl job that was accepted with sequence number k.
AcceptedAt(k) == CHOOSE a \in accepted : a.seq = k

\* C23 (ordered commit): the jobs accepted so far carry the sequence
\* numbers 0, 1, 2, ... without gap or repeat, the next one being nextSeq;
\* the report holds exactly the pages of the jobs 0..nextCommit-1 in that
\* order; a page that has arrived ahead of an outstanding earlier one is
\* held in pendingPages, which never holds the page that is next to commit;
\* and when the crawl returns the report holds every accepted job's page
\* in enqueue order.
C23_OrderedCommit ==
  RunsCrawl(opts) =>
    /\ { a.seq : a \in accepted } = 0..(agg.nextSeq - 1)
    /\ Cardinality(accepted) = agg.nextSeq
    /\ Len(report) = agg.nextCommit
    /\ \A i \in 1..Len(report) : report[i].url = AcceptedAt(i - 1).url
    /\ \A e \in agg.pendingPages :
         /\ e.seq > agg.nextCommit
         /\ e.seq < agg.nextSeq
         /\ e.page.url = AcceptedAt(e.seq).url
    /\ emitted.done => Len(report) = agg.nextSeq

\* C23's case: a page was delivered before the page of an earlier job and
\* is held back, with pages already committed before it.
C23_Witness ==
  /\ agg.pendingPages # {}
  /\ Len(report) >= 1
  /\ \E e \in agg.pendingPages : e.seq = agg.nextCommit + 1

\* The number of results the aggregator has handled: each handled result
\* put one page into pendingPages, from where it moves to the report.
Handled == Len(report) + Cardinality(agg.pendingPages)

\* C24 as stated: pending is the number of accepted jobs minus the number of
\* handled results and is never negative, and the jobs channel is closed
\* only with pending = 0 and after a result has been handled.
C24_Original ==
  RunsCrawl(opts) =>
    /\ agg.pending = Cardinality(accepted) - Handled
    /\ agg.pending >= 0
    /\ jobsChClosed => (agg.pending = 0 /\ Handled >= 1)

\* C24 (pending accounting): pending is the number of accepted jobs minus
\* the number of handled results and is never negative; the jobs channel is
\* closed only with pending = 0, and then either a result has been handled
\* or the context was cancelled before the root job was accepted, so that
\* no job was ever accepted.
C24_PendingAccounting ==
  RunsCrawl(opts) =>
    /\ agg.pending = Cardinality(accepted) - Handled
    /\ agg.pending >= 0
    /\ jobsChClosed <=> agg.jobsClosed
    /\ jobsChClosed =>
         /\ agg.pending = 0
         /\ Handled >= 1 \/ (ctxDone /\ accepted = {})

\* C24's case: jobs were accepted while earlier results were being handled,
\* every result has been handled, and the channel is closed.
C24_Witness ==
  /\ jobsChClosed
  /\ agg.pending = 0
  /\ Handled >= 3
  /\ Handled = Cardinality(accepted)

\* The configured maximum depth, a negative one acting as 0.
DepthLimit(o) == IF o.Depth < 0 THEN 0 ELSE o.Depth

\* The absolute URLs the page at u links to.
LinkTargets(o, u) ==
  { Resolve(u, Site(o.site)[u].links[k]) : k \in 1..Len(Site(o.site)[u].links) } \ {0}

\* C25 (depth bound): every accepted crawl job has a depth in
\* 0..DepthLimit; the root job has depth 0 and every other job has the
\* depth of an accepted page that links to it plus 1; and every page of the
\* report, before and after the sort, has a depth in 0..DepthLimit.
C25_DepthBound ==
  /\ \A a \in accepted :
       /\ a.depth >= 0 /\ a.depth <= DepthLimit(opts)
       /\ a.seq = 0 => a.depth = 0
       /\ a.seq # 0 =>
            \E b \in accepted :
              /\ b.seq < a.seq
              /\ a.depth = b.depth + 1
              /\ a.depth = a.from + 1
              /\ a.url \in LinkTargets(opts, b.url)
  /\ \A i \in 1..Len(report) :
       report[i].depth >= 0 /\ report[i].depth <= DepthLimit(opts)
  /\ \A i \in 1..Len(emitted.pages) :
       emitted.pages[i].depth >= 0 /\ emitted.pages[i].depth <= DepthLimit(opts)

\* C25's case: the report holds a page at the maximum depth, at least 1,
\* that links to a URL of the root's origin which was never enqueued.
C25_Witness ==
  /\ emitted.done
  /\ DepthLimit(opts) >= 1
  /\ \E i \in 1..Len(emitted.pages) :
       /\ emitted.pages[i].depth = DepthLimit(opts)
       /\ emitted.pages[i].status = "ok"
       /\ \E v \in LinkTargets(opts, emitted.pages[i].url) :
            /\ OriginOf(v) = OriginOf(1)
            /\ \A a \in accepted : a.url # v

\* C26 (crawl dedup): no two accepted crawl jobs have the same URL, and no
\* two pages of the report, before or after the sort, have the same URL.
C26_CrawlDedup ==
  /\ \A a, b \in accepted : a.url = b.url => a = b
  /\ \A i, j \in 1..Len(report) : report[i].url = report[j].url => i = j
  /\ \A i, j \in 1..Len(emitted.pages) :
       emitted.pages[i].url = emitted.pages[j].url => i = j

\* C26's case: the returned report holds two ok pages, both above the
\* maximum depth, that link to the same URL of the root's origin, and that
\* URL was crawled.
C26_Witness ==
  /\ emitted.done
  /\ \E i, j \in 1..Len(emitted.pages) :
       /\ i # j
       /\ emitted.pages[i].status = "ok" /\ emitted.pages[j].status = "ok"
       /\ emitted.pages[i].depth < DepthLimit(opts)
       /\ emitted.pages[j].depth < DepthLimit(opts)
       /\ \E a \in accepted :
            /\ a.url \in LinkTargets(opts, emitted.pages[i].url)
            /\ a.url \in LinkTargets(opts, emitted.pages[j].url)

\* C27 (aggregator on cancellation): once the context has fired no step
\* puts a new job on the jobs channel.
C27_CancelStopsEnqueue == [][ctxDone => accepted' = accepted]_vars

\* The calls of Fetcher.Fetch in progress: by fetchWithCache for a page or
\* a link probe, and by getAsset for an asset.
InFlight ==
  Cardinality({ t \in DOMAIN fc : fc[t].pc = "fetch" })
    + Cardinality({ w \in WorkerIds : wk[w].pc = "afetch" })

\* MaxConcurrentFetch as configured: the worker count when it is not
\* positive, and at least 1.
FetchLimit(o) ==
  IF o.MaxConcurrentFetch > 0 THEN o.MaxConcurrentFetch
  ELSE IF o.Concurrency >= 1 THEN o.Concurrency
  ELSE 1

\* C28 (fetch concurrency bound): at every moment the number of fetcher
\* calls in progress, of all three kinds together, is at most the
\* configured limit, which is at least 1.
C28_FetchBound ==
  /\ FetchLimit(opts) >= 1
  /\ InFlight <= FetchLimit(opts)

\* C28's case: as many fetcher calls are in progress as the limit allows,
\* an asset fetch and a page fetch or link probe among them, and a further
\* caller is waiting for a slot.
C28_Witness ==
  /\ InFlight = FetchLimit(opts)
  /\ \E w \in WorkerIds : wk[w].pc = "afetch"
  /\ \E t \in DOMAIN fc : fc[t].pc = "fetch"
  /\ \/ \E t \in DOMAIN fc : fc[t].pc = "acquire"
     \/ \E w \in WorkerIds : wk[w].pc = "aacquire"

\* C29 (cancellation before semaphore acquisition): when the creator of a
\* fetch-cache entry is at acquireFetch with the context cancelled, its
\* next step removes the entry from the cache map, and the step after
\* stores the cancellation error in the entry, closes its ready signal,
\* which was open, and returns the cancellation error with an empty
\* result; neither step calls the fetcher or changes the semaphore, and
\* every follower waiting on the entry finds the ready signal closed.
C29_CancelBeforeAcquire ==
  [][\A t \in DOMAIN fc :
       /\ (fc[t].pc = "acquire" /\ ctxDone /\ fc'[t] # fc[t]) =>
            /\ fetchCache'[fc[t].url] = 0
            /\ fc'[t].pc = "failed"
            /\ fetchCalls' = fetchCalls
            /\ fetchSem' = fetchSem
       /\ (fc[t].pc = "failed" /\ fc'[t] # fc[t]) =>
            /\ fetchCache'[fc[t].url] # fc[t].entry
            /\ entries'[fc[t].entry].res = CtxRes
            /\ ~entries[fc[t].entry].ready
            /\ entries'[fc[t].entry].ready
            /\ entries'[fc[t].entry].closes = 1
            /\ fc'[t].pc = "ret"
            /\ fc'[t].res = CtxRes
            /\ fetchCalls' = fetchCalls
            /\ fetchSem' = fetchSem
            /\ \A f \in DOMAIN fc :
                 (fc[f].pc = "wait" /\ fc[f].entry = fc[t].entry) =>
                   (fc'[f].pc = "wait" /\ entries'[fc'[f].entry].ready)]_vars

\* C29's case: the creator of an entry has returned without a fetcher call
\* for its URL, and a follower of that entry is still at its select.
C29_Witness ==
  \E t, f \in DOMAIN fc :
    /\ fc[t].pc = "ret" /\ fc[t].via = "first"
    /\ fetchCalls[fc[t].url] = 0
    /\ entries[fc[t].entry].ready
    /\ fetchCache[fc[t].url] = 0
    /\ fc[f].pc = "wait" /\ fc[f].entry = fc[t].entry

\* C30 (follower cancellation is local): the step by which a follower
\* leaves its wait because the context is cancelled returns the
\* cancellation error with an empty result and changes nothing else: not
\* the entries, the cache map, the semaphore, the count of fetcher calls or
\* any other caller's frame.  A creator whose fetcher call was in progress
\* still stores what the call returns, and its entry stays in the cache.
C30_FollowerCancelLocal ==
  /\ [][\A f \in DOMAIN fc :
          (fc[f].pc = "wait" /\ fc'[f].pc = "ret" /\ fc'[f].via = "ctx") =>
            /\ ctxDone
            /\ fc'[f].res.status = 0
            /\ fc'[f].res.err = "ctx"
            /\ entries' = entries
            /\ fetchCache' = fetchCache
            /\ fetchSem' = fetchSem
            /\ fetchCalls' = fetchCalls
            /\ \A t \in DOMAIN fc : t # f => fc'[t] = fc[t]]_vars
  /\ [][\A t \in DOMAIN fc :
          (fc[t].pc = "fetch" /\ fc'[t].pc # "fetch") =>
            /\ fc'[t].pc = "ret"
            /\ entries'[fc[t].entry].ready
            /\ entries'[fc[t].entry].res = fc'[t].res
            /\ fetchCache'[fc[t].url] = fc[t].entry]_vars
  /\ [](\A t \in DOMAIN fc :
          fc[t].pc = "fetch" =>
            (fetchCache[fc[t].url] = fc[t].entry /\ ~entries[fc[t].entry].ready))

\* C30's case: a follower has returned on the cancelled context while the
\* creator of its entry is still inside its fetcher call, the entry in the
\* cache and its ready signal open.
C30_Witness ==
  \E t, f \in DOMAIN fc :
    /\ fc[f].pc = "ret" /\ fc[f].via = "ctx"
    /\ fc[t].pc = "fetch" /\ fc[t].entry = fc[f].entry
    /\ fetchCache[fc[t].url] = fc[t].entry
    /\ ~entries[fc[t].entry].ready

\* The first position of x in the sequence.
PosIn(seq, x) ==
  CHOOSE i \in 1..Len(seq) : seq[i] = x /\ \A j \in 1..(i - 1) : seq[j] # x

\* The first checked broken link of the worker's page with v's canonical key.
FirstBroken(r, v) ==
  CHOOSE i \in 1..Len(r.resolved) :
    /\ r.processed[i] /\ r.results[i].broken /\ CanonKey(r.resolved[i]) = CanonKey(v)
    /\ \A j \in 1..(i - 1) :
         ~(r.processed[j] /\ r.results[j].broken
             /\ CanonKey(r.resolved[j]) = CanonKey(v))

\* C31 (link-check collection): for the page a worker is processing, the
\* outcomes received never outnumber the jobs submitted, the submitted jobs
\* are a prefix of the resolved links, and each received outcome sits at
\* the index of the link it is about.  Once runLinkChecks has returned, as
\* many outcomes were received as jobs submitted, every submitted link and
\* no other was processed, the crawl candidates are exactly the processed
\* links that are not broken, in resolved-link order, and the broken links
\* are exactly the processed broken ones, one per canonical URL, in the
\* order of their first resolved-link position.
C31_LinkCheckCollection ==
  \A w \in DOMAIN wk :
    LET r == wk[w]
        n == Len(r.resolved)
        bl == r.page.brokenLinks.v IN
    r.resolved # << >> =>
      /\ r.got <= r.sent /\ r.sent <= n
      /\ Cardinality({ i \in 1..n : r.processed[i] }) = r.got
      /\ \A i \in 1..n :
           r.processed[i] => (i <= r.sent /\ r.results[i].url = r.resolved[i])
      /\ r.pc \notin {"feed", "collect"} =>
           /\ r.got = r.sent
           /\ \A i \in 1..n : r.processed[i] <=> i <= r.sent
           /\ { r.links[k] : k \in 1..Len(r.links) }
                = { r.resolved[i] : i \in { j \in 1..n :
                                             r.processed[j] /\ ~r.results[j].broken } }
           /\ \A k, m \in 1..Len(r.links) :
                k < m => PosIn(r.resolved, r.links[k]) < PosIn(r.resolved, r.links[m])
           /\ \A i \in 1..n :
                (r.processed[i] /\ r.results[i].broken) =>
                  \E k \in 1..Len(bl) : CanonKey(bl[k].url) = CanonKey(r.resolved[i])
           /\ \A k \in 1..Len(bl) :
                \E i \in 1..n :
                  /\ r.processed[i] /\ r.results[i].broken
                  /\ CanonKey(bl[k].url) = CanonKey(r.resolved[i])
           /\ \A k, m \in 1..Len(bl) :
                k < m => FirstBroken(r, bl[k].url) < FirstBroken(r, bl[m].url)

\* C31's case: a later link's outcome was received before an earlier
\* link's, which is still outstanding.
C31_Witness ==
  \E w \in DOMAIN wk :
    /\ wk[w].pc = "collect"
    /\ wk[w].sent >= 2
    /\ wk[w].processed[2]
    /\ ~wk[w].processed[1]

\* C34 (cancellation is not recorded per resource): in a returned report no
\* page lists a BrokenLink whose error is the context's cancellation and no
\* page lists an Asset whose error text is the context's cancellation.
C34_CancelNotRecorded ==
  emitted.done =>
    \A i \in 1..Len(emitted.pages) :
      LET page == emitted.pages[i] IN
      /\ \A k \in 1..Len(page.brokenLinks.v) :
           page.brokenLinks.v[k].error # errorString(CtxRes)
      /\ \A k \in 1..Len(page.assets.v) :
           page.assets.v[k].error # CtxAssetResult.err

\* C35 (depth is graph distance): in the report of an uncancelled crawl
\* every page is reported at the length of the shortest chain of non-broken
\* same-origin links from the root to it, and every page whose distance
\* from the root is at most the max depth is in the report.
C35_DepthIsDistance ==
  (emitted.done /\ RunsCrawl(opts) /\ opts.ctx = "background") =>
    /\ \A i \in 1..Len(emitted.pages) :
         /\ emitted.pages[i].url \in RefWithin(opts, normalizeMaxDepth(opts.Depth))
         /\ emitted.pages[i].depth = RefDepth(opts, emitted.pages[i].url)
    /\ \A u \in RefWithin(opts, normalizeMaxDepth(opts.Depth)) :
         \E i \in 1..Len(emitted.pages) : emitted.pages[i].url = u

\* C36 (jobs channel closed once, no send after close): close(a.jobs) is
\* executed at most once, the channel is closed exactly when it has been
\* executed, and no step sends a job on the channel once it is closed.
C36_JobsClosedOnce ==
  /\ [](agg.closes <= 1 /\ (jobsChClosed <=> agg.closes = 1))
  /\ [][jobsChClosed => (Len(jobs') <= Len(jobs) /\ accepted' = accepted)]_vars

\* The channel was closed after a cancellation was noticed, once jobs sent
\* for links had been handled.
C36_Witness ==
  /\ jobsChClosed /\ agg.closes = 1
  /\ ctxDone /\ agg.canceled
  /\ Cardinality(accepted) >= 2

\* C37 (no page lost or duplicated): in every state nextCommit <= nextSeq
\* and every key of pendingPages lies in [nextCommit, nextSeq) and is held
\* once; when run has returned, cancelled or not, pendingPages is empty,
\* nextCommit equals nextSeq and the report holds exactly one page for each
\* job accepted onto the jobs channel and no other page.
C37_NoPageLostOrDuplicated ==
  RunsCrawl(opts) =>
    /\ agg.nextCommit <= agg.nextSeq
    /\ \A e \in agg.pendingPages :
         /\ agg.nextCommit <= e.seq /\ e.seq < agg.nextSeq
         /\ \A d \in agg.pendingPages : d.seq = e.seq => d = e
    /\ agg.pc = "stop" =>
         /\ agg.pendingPages = {}
         /\ agg.nextCommit = agg.nextSeq
         /\ Len(report) = Cardinality(accepted)
         /\ \A a \in accepted :
              Cardinality({ i \in 1..Len(report) : report[i].url = a.url }) = 1

\* run has returned after a cancellation with several jobs accepted, one
\* of whose pages records the cancellation as its error.
C37_Witness ==
  /\ agg.pc = "stop"
  /\ ctxDone
  /\ Len(report) >= 3
  /\ \E i \in 1..Len(report) : report[i].error = errorString(CtxRes)

\* C38 (probe before crawl): every non-root job accepted onto the jobs
\* channel is for a URL whose fetch cache entry is ready and holds a result
\* without error and with status < 400 (the result its link probe got); no
\* URL a report page lists as a broken link has been accepted as a crawl
\* job; and without cancellation Fetcher.Fetch is called exactly once for
\* the URL of a non-root job, the probe's call.
C38_ProbeBeforeCrawl ==
  RunsCrawl(opts) =>
    /\ \A a \in accepted :
         a.depth >= 1 =>
           /\ fetchCache[a.url] # 0
           /\ entries[fetchCache[a.url]].ready
           /\ entries[fetchCache[a.url]].res.err = "nil"
           /\ entries[fetchCache[a.url]].res.status < 400
           /\ opts.ctx = "background" => fetchCalls[a.url] = 1
    /\ \A i \in 1..Len(report) :
         \A k \in 1..Len(report[i].brokenLinks.v) :
           \A a \in accepted : a.url # report[i].brokenLinks.v[k].url

\* C39 (link-check pool shutdown): the link-check job channel is closed
\* only when every crawl worker has exited, and no step sends a job on it
\* once it is closed; a pool worker holding a job belongs to a page whose
\* crawl worker is still in runLinkChecks, and when its outcome is ready
\* the page's result channel has room for it.
C39_PoolShutdownSafe ==
  /\ [](lcClosed => \A w \in DOMAIN wk : wk[w].pc \in {"exit", "off"})
  /\ [][lcClosed => Len(lcJobs') <= Len(lcJobs)]_vars
  /\ [](\A p \in DOMAIN pool :
          pool[p].pc = "fetch" =>
            /\ wk[pool[p].job.owner].pc \in {"feed", "collect"}
            /\ Len(resultCh[pool[p].job.owner])
                 < resultChCap(wk[pool[p].job.owner].resolved))

\* The pool has shut down after serving a page that submitted two jobs.
C39_Witness ==
  /\ lcClosed
  /\ \A p \in DOMAIN pool : pool[p].pc \in {"exit", "off"}
  /\ \E x, y \in probes : x.page = y.page /\ x.url # y.url

(***************************************************************************)
(* The fetcher and the rate limiter (SpecFetch).  Durations and instants   *)
(* are in nanoseconds, as time.Duration; the clock starts after the zero   *)
(* time and advances in steps of 100 ms.                                   *)
(***************************************************************************)
MaxRetries == 2
MaxTime == 8
NumCallers == 2

Second == 1000000000
baseRetryDelay == 100000000
maxRetryDelay == 2000000000

\* The step of the model's clock: 100 ms.
TickStep == baseRetryDelay

\* Options of a run and the kind of answers the first caller's URL gives.
FOpt(retries, delay, rps, ctx, server) ==
  [Retries |-> retries, Delay |-> delay, RPS |-> rps, ctx |-> ctx,
   server |-> server]

FConfigs ==
  { FOpt(r, 0, 0, "background", s) :
      r \in (0 - 1)..MaxRetries, s \in {"statuses", "errors"} }
  \cup { FOpt(r, 2 * TickStep, 0, "background", "statuses") : r \in {0, MaxRetries} }
  \cup { FOpt(1, 0, 5, "background", "errors"),
         FOpt(1, 0, 0, "cancel", "statuses"), FOpt(0, 0, 5, "cancel", "statuses"),
         FOpt(0, 0, 0, "cancel", "errors"),
         FOpt(0, 0, 3, "background", "statuses"),
         FOpt(0, 0, 20, "background", "statuses") }

\* rateInterval: RPS overrides Delay; 0 means no limiter.  With RPS > 0
\* the interval is time.Duration(float64(time.Second) / RPS), truncated to
\* whole nanoseconds and never below time.Nanosecond.  (RPS is a whole
\* number here.)
rateInterval(o) ==
  IF o.RPS > 0
  THEN IF Second \div o.RPS <= 0 THEN 1 ELSE Second \div o.RPS
  ELSE IF o.Delay > 0 THEN o.Delay
  ELSE 0

\* fetcher.New: retryDelay <= 0 becomes baseRetryDelay; analyzeReport
\* passes opts.Delay as retryDelay.
FetcherRetryDelay(o) == IF o.Delay <= 0 THEN baseRetryDelay ELSE o.Delay

\* delay *= 2 for a delay below maxRetryDelay.  A product above
\* maxRetryDelay is only ever compared with maxRetryDelay, and is kept
\* just above it.
doubleDelay(delay) ==
  IF delay > maxRetryDelay \div 2 THEN maxRetryDelay + 1 ELSE delay * 2

\* Fetcher.retryDelayFor
RECURSIVE retryDelayLoop(_, _, _)
retryDelayLoop(delay, i, attempt) ==
  IF i >= attempt
  THEN IF delay > maxRetryDelay THEN maxRetryDelay ELSE delay
  ELSE IF delay >= maxRetryDelay THEN maxRetryDelay
  ELSE retryDelayLoop(doubleDelay(delay), i + 1, attempt)

retryDelayFor(o, attempt) ==
  retryDelayLoop(FetcherRetryDelay(o), 1, IF attempt < 1 THEN 1 ELSE attempt)

CtxErr == << "canceled" >>

FRes(status, err) == [status |-> status, err |-> err]

\* What doRequest can return for caller c's URL.  Caller 1's URL may answer
\* anything on each attempt; the other callers' URLs answer 200.
\* client.Do wraps transport errors in a *url.Error; a failed body read is
\* wrapped by doRequest and keeps the status.
RequestOutcomes(c, server, done) ==
  (IF c = 1 /\ server = "statuses"
   THEN { FRes(200, << >>), FRes(404, << >>), FRes(429, << >>), FRes(500, << >>) }
   ELSE IF c = 1
   THEN { FRes(0, << "url", "net" >>), FRes(0, << "url", "url", "net" >>),
          FRes(200, << "wrap", "ueof" >>),
          FRes(0, << "wrap", "invalid" >>),
          FRes(0, << "url", "plain" >>), FRes(0, << "url", "url", "plain" >>),
          FRes(0, << "url", "deadline" >>) }
   ELSE { FRes(200, << >>) })
  \cup (IF done THEN { FRes(0, << "url", "canceled" >>) } ELSE {})

(***************************************************************************)
(* Limiter.Wait and Fetcher.Fetch as steps of caller c.                    *)
(***************************************************************************)
FCallers == 1..NumCallers

IdleCall ==
  [pc |-> "idle", attempt |-> 0, attempts |-> 0, res |-> FRes(0, << >>),
   wake |-> 0, tries |-> 0, allRetryable |-> TRUE, slot |-> 0, waits |-> 0,
   delays |-> << >>, lastOut |-> FRes(0, << >>), differs |-> FALSE,
   ret |-> FRes(0, << >>)]

LimiterPerCaller(c) == c

\* f.limiter of the Fetcher a caller uses: analyzeReport builds one limiter
\* and one Fetcher, and every worker fetches through that Fetcher.
LimiterOf(c) == 1

LimReserveNow(lastv, nowv, interval) ==
  IF lastv = 0 THEN [last |-> nowv, wait |-> 0]
  ELSE IF nowv < lastv + interval
       THEN [last |-> nowv, wait |-> (lastv + interval) - nowv]
       ELSE [last |-> nowv, wait |-> 0]

\* Limiter.Wait's critical section: the new l.last and the time to sleep.
LimReserve(lastv, nowv, interval) ==
  IF lastv = 0 THEN [last |-> nowv, wait |-> 0]
  ELSE LET next == lastv + interval IN
       IF nowv < next THEN [last |-> next, wait |-> next - nowv]
       ELSE [last |-> nowv, wait |-> 0]

\* Where an attempt starts: fetchOnce calls limiter.Wait when f.limiter is
\* not nil (NewWithTimer returns nil for an interval <= 0).
AttemptPc == IF rateInterval(fopts) > 0 THEN "wait" ELSE "request"

Return(call, res) == [call EXCEPT !.pc = "done", !.ret = res]

\* Fetch up to its first fetchOnce; with no attempt to make the loop is
\* skipped and lastResult, lastErr are returned.
FetchCall(c) ==
  /\ fcall[c].pc = "idle"
  /\ LET attempts == attemptsOf(fopts) IN
     fcall' = [fcall EXCEPT ![c] =
                 IF attempts <= 0 THEN Return(@, FRes(0, << >>))
                 ELSE [@ EXCEPT !.pc = AttemptPc, !.attempt = 0,
                                !.attempts = attempts]]
  /\ UNCHANGED << cx, fopts, now, fctxDone, last, grants >>

\* Limiter.Wait up to its return or its call of clock.Sleep.
LimiterWait(c) ==
  /\ fcall[c].pc = "wait"
  /\ LET r == LimReserve(last[LimiterOf(c)], now, rateInterval(fopts)) IN
     /\ last' = [last EXCEPT ![LimiterOf(c)] = r.last]
     /\ grants' = IF grants = << >> THEN << r.last >>
                  ELSE << grants[Len(grants)], r.last >>
     /\ fcall' = [fcall EXCEPT ![c] =
                    [@ EXCEPT !.pc = IF r.wait > 0 THEN "limsleep" ELSE "request",
                              !.wake = now + r.wait,
                              !.slot = r.last, !.waits = @ + 1]]
  /\ UNCHANGED << cx, fopts, now, fctxDone >>

LimiterWakeTimerOnly(c) ==
  /\ fcall[c].pc = "limsleep"
  /\ now >= fcall[c].wake
  /\ fcall' = [fcall EXCEPT ![c].pc = "request"]
  /\ UNCHANGED << cx, fopts, now, fctxDone, last, grants >>

\* clock.Sleep(ctx, wait) in Limiter.Wait returns: the timer fired, or the
\* context is done and Wait, fetchOnce and Fetch return its error.
LimiterWake(c) ==
  /\ fcall[c].pc = "limsleep"
  /\ \/ /\ now >= fcall[c].wake
        /\ fcall' = [fcall EXCEPT ![c].pc = "request"]
     \/ /\ fctxDone
        /\ fcall' = [fcall EXCEPT ![c] =
                       Return([@ EXCEPT !.res = FRes(0, CtxErr)], FRes(0, CtxErr))]
  /\ UNCHANGED << cx, fopts, now, fctxDone, last, grants >>

\* The outcomes the retry policy is stated for: a network-class failure,
\* HTTP 429 or HTTP 5xx.
RetryableOutcome(out) ==
  \/ out.err = << >> /\ out.status \in {429, 500}
  \/ out.err \in { << "url", "net" >>, << "url", "url", "net" >> }

attemptResultFirst(call, out) == IF call.tries >= 1 THEN call.res ELSE out

\* Fetch: result, err := f.fetchOnce(...); lastResult = result; lastErr = err
attemptResult(call, out) == out

\* The rest of the loop body of Fetch after fetchOnce returned out: the
\* success return, or shouldRetry up to its return or its clock.Sleep.
AfterAttempt(call, got, done) ==
  LET out == attemptResult(call, got)
      r == [call EXCEPT !.res = out, !.tries = @ + 1,
                        !.allRetryable = @ /\ RetryableOutcome(got)] IN
  IF out.err = << >> /\ out.status < 400
  THEN IF done THEN Return(r, FRes(0, CtxErr)) ELSE Return(r, out)
  ELSE IF done THEN Return(r, FRes(out.status, coalesceError(out.err, CtxErr)))
  ELSE IF ~isRetryable(out.status, out.err) \/ r.attempt = r.attempts - 1
       THEN Return(r, FRes(out.status, errorForStatus(out.err, out.status)))
  ELSE [r EXCEPT !.pc = "backoff",
                 !.wake = now + retryDelayFor(fopts, r.attempt + 1),
                 !.delays = Append(@, retryDelayFor(fopts, r.attempt + 1))]

\* doRequest: one HTTP attempt and what Fetch does with its outcome.
DoRequest(c) ==
  /\ fcall[c].pc = "request"
  /\ \E out \in RequestOutcomes(c, fopts.server, fctxDone) :
       fcall' = [fcall EXCEPT ![c] =
                   [AfterAttempt(@, out, fctxDone) EXCEPT
                      !.lastOut = out,
                      !.differs = fcall[c].tries >= 1 /\ fcall[c].lastOut # out]]
  /\ UNCHANGED << cx, fopts, now, fctxDone, last, grants >>

\* clock.Sleep(ctx, sleepDelay) in shouldRetry returns: the next attempt
\* starts, or the context is done and Fetch returns its error.
BackoffWake(c) ==
  /\ fcall[c].pc = "backoff"
  /\ \/ /\ now >= fcall[c].wake
        /\ fcall' = [fcall EXCEPT ![c].pc = AttemptPc, ![c].attempt = @ + 1]
     \/ /\ fctxDone
        /\ fcall' = [fcall EXCEPT ![c] = Return(@, FRes(@.res.status, CtxErr))]
  /\ UNCHANGED << cx, fopts, now, fctxDone, last, grants >>

\* Time passes.
Tick ==
  /\ now + TickStep <= MaxTime * TickStep
  /\ \E c \in FCallers : fcall[c].pc # "done"
  /\ now' = now + TickStep
  /\ UNCHANGED << cx, fopts, fctxDone, last, grants, fcall >>

\* The caller cancels the context of the Fetch calls.
FCancel ==
  /\ fopts.ctx = "cancel"
  /\ ~fctxDone
  /\ fctxDone' = TRUE
  /\ UNCHANGED << cx, fopts, now, last, grants, fcall >>

NextFetch ==
  \/ Tick
  \/ FCancel
  \/ \E c \in FCallers : FetchCall(c)
  \/ \E c \in FCallers : LimiterWait(c)
  \/ \E c \in FCallers : LimiterWake(c)
  \/ \E c \in FCallers : DoRequest(c)
  \/ \E c \in FCallers : BackoffWake(c)

(***************************************************************************)
(* Properties of the limiter and the fetcher.                              *)
(***************************************************************************)
\* C7: any two successive grants of the limiter (the slots successive calls
\* of Wait reserve) are at least the interval apart, whatever the number of
\* concurrent callers; only the first grant is exempt.
C7_GrantSpacing ==
  Len(grants) = 2 => grants[2] - grants[1] >= rateInterval(fopts)

\* Two callers contend: the second reserved the slot one interval after
\* the first and sleeps until it.
C7_Witness ==
  /\ rateInterval(fopts) > 0
  /\ Len(grants) = 2
  /\ grants[2] = grants[1] + rateInterval(fopts)
  /\ \E c, d \in FCallers :
       /\ c # d
       /\ fcall[c].slot = grants[1]
       /\ fcall[d].slot = grants[2]
       /\ fcall[d].pc = "limsleep"
       /\ fcall[d].wake > now

\* C8: with a rate limit configured, every HTTP attempt of every caller
\* (first attempts and retries) is preceded by its own grant from the one
\* limiter instance, no other instance is ever used, and the slots granted
\* to different callers' attempts are at least the interval apart.
C8_SharedLimiter ==
  rateInterval(fopts) > 0 =>
    /\ \A i \in FCallers : i # 1 => last[i] = 0
    /\ \A c \in FCallers :
         /\ fcall[c].pc = "request" =>
              /\ fcall[c].waits = fcall[c].tries + 1
              /\ fcall[c].slot # 0
              /\ fcall[c].slot <= now
              /\ fcall[c].slot <= last[1]
         /\ fcall[c].tries <= fcall[c].waits
    /\ \A c, d \in FCallers :
         (c # d /\ fcall[c].slot # 0 /\ fcall[d].slot # 0) =>
           \/ fcall[c].slot - fcall[d].slot >= rateInterval(fopts)
           \/ fcall[d].slot - fcall[c].slot >= rateInterval(fopts)

\* One caller is about to send a retry and another its first attempt, each
\* holding its own grant.
C8_Witness ==
  /\ rateInterval(fopts) > 0
  /\ \E c, d \in FCallers :
       /\ c # d
       /\ fcall[c].pc = "request" /\ fcall[c].tries = 1
       /\ fcall[d].pc = "request" /\ fcall[d].tries = 0
       /\ fcall[c].slot # fcall[d].slot

SuccessOutcome(out) == out.err = << >> /\ out.status < 400

\* C9 as stated: with retries = N >= 0 a call makes at most N + 1 attempts,
\* a call all of whose attempts ended in a retryable outcome has made
\* exactly N + 1 attempts with N backoff sleeps when it returns, and the
\* call returns at the first successful attempt.
C9_Original ==
  fopts.Retries >= 0 =>
    \A c \in FCallers :
      /\ fcall[c].tries <= fopts.Retries + 1
      /\ (fcall[c].pc = "done" /\ fcall[c].tries >= 1 /\ fcall[c].allRetryable) =>
           /\ fcall[c].tries = fopts.Retries + 1
           /\ Len(fcall[c].delays) = fopts.Retries
      /\ (fcall[c].tries >= 1 /\ SuccessOutcome(fcall[c].res)) =>
           fcall[c].pc = "done"

\* C9, amended: the same, for calls whose context is not cancelled before
\* they return.
C9_RetryCount ==
  fopts.Retries >= 0 =>
    \A c \in FCallers :
      /\ fcall[c].tries <= fopts.Retries + 1
      /\ Len(fcall[c].delays) <= fopts.Retries
      /\ (fcall[c].pc = "done" /\ fcall[c].tries >= 1 /\ fcall[c].allRetryable
            /\ ~fctxDone) =>
           /\ fcall[c].tries = fopts.Retries + 1
           /\ Len(fcall[c].delays) = fopts.Retries
      /\ (fcall[c].tries >= 1 /\ SuccessOutcome(fcall[c].res)) =>
           fcall[c].pc = "done"

\* A call with the largest retry budget returned after every attempt ended
\* in a retryable outcome.
C9_Witness ==
  /\ fopts.Retries = 2
  /\ ~fctxDone
  /\ fcall[1].pc = "done"
  /\ fcall[1].allRetryable
  /\ fcall[1].tries = 3
  /\ Len(fcall[1].delays) = 2
  /\ fcall[1].ret.err # << >>

\* The outcomes of an attempt the retry policy excludes: a 4xx other than
\* 429, an invalid request, an unsupported scheme (also nested in wrapper
\* errors), a cancelled context or an expired deadline.
NonRetryableOutcome(out) ==
  \/ out.err = << >> /\ out.status >= 400 /\ out.status < 500 /\ out.status # 429
  \/ out.err \in { << "wrap", "invalid" >>, << "url", "plain" >>,
                  << "url", "url", "plain" >>, << "url", "deadline" >>,
                  << "url", "canceled" >> }

\* C10: once an attempt of a call ended in a non-retryable outcome the call
\* has returned, with no attempt and no backoff sleep after that attempt,
\* whatever the retry budget.
C10_NonRetryableStops ==
  \A c \in FCallers :
    (fcall[c].tries >= 1 /\ NonRetryableOutcome(fcall[c].res)) =>
      /\ fcall[c].pc = "done"
      /\ Len(fcall[c].delays) = fcall[c].tries - 1
      /\ fcall[c].ret.err # << >>

\* With retries left, a call returned after its second attempt answered 404.
C10_Witness ==
  /\ fopts.Retries = 2
  /\ fcall[1].pc = "done"
  /\ fcall[1].tries = 2
  /\ fcall[1].res = FRes(404, << >>)
  /\ fcall[1].ret = FRes(404, << "status" >>)

\* What Fetch returns for its last attempt, whose outcome is out, when the
\* context is not done.
LastAttemptPair(out) ==
  Res(out.status,
      IF out.err # "nil" THEN out.err
      ELSE IF out.status >= 400 THEN "status" ELSE "nil")

\* What Fetch may return for its last attempt once the context is done: the
\* attempt's status or the empty result, with the context's error or the
\* attempt's own.
LastAttemptPairs(out, done) ==
  { LastAttemptPair(out) }
    \cup (IF done THEN { Res(out.status, "ctx"), CtxRes } ELSE {})

\* What a caller of fetchWithCache for u can be given, and so what can be
\* recorded for u: the pair stored in u's cache entry and, once the context
\* is done, the context's error with the empty result.
Recordable(u, done) ==
  (IF fetchCache[u] # 0 /\ entries[fetchCache[u]].ready
   THEN { entries[fetchCache[u]].res } ELSE {})
    \cup (IF done THEN { CtxRes } ELSE {})

\* The same for getAsset.
AssetRecordable(u, done) ==
  (IF assetCache[u] # 0 /\ assetEntries[assetCache[u]].ready
   THEN { assetEntries[assetCache[u]].result } ELSE {})
    \cup (IF done THEN { CtxAssetResult } ELSE {})

\* A call of Fetch that made an attempt returned (and the cache entry
\* holds) the pair of its last attempt; done tells whether the context's
\* error is admitted in its place.
FetchReturnsLast(done) ==
  /\ \A c \in FCallers :
       (fcall[c].pc = "done" /\ fcall[c].tries >= 1) =>
         /\ ~(done /\ fctxDone) =>
              /\ fcall[c].ret.status = fcall[c].lastOut.status
              /\ fcall[c].ret.err =
                   errorForStatus(fcall[c].lastOut.err, fcall[c].lastOut.status)
         /\ fcall[c].ret.status \in {fcall[c].lastOut.status, 0}
         /\ fcall[c].ret.err \in {fcall[c].lastOut.err, CtxErr, << "status" >>}
         /\ fcall[c].ret.err = << "status" >> => fcall[c].lastOut.status >= 400
  /\ \A u \in URLs :
       /\ (fetchCache[u] # 0 /\ entries[fetchCache[u]].ready
             /\ entries[fetchCache[u]].tries >= 1) =>
            entries[fetchCache[u]].res \in
              LastAttemptPairs(AttemptOutcome(opts.site, u,
                                              entries[fetchCache[u]].tries),
                               done /\ ctxDone)
       /\ (assetCache[u] # 0 /\ assetEntries[assetCache[u]].ready
             /\ assetEntries[assetCache[u]].tries >= 1) =>
            assetEntries[assetCache[u]].result \in
              { fetchAssetResult(opts.site, u, r) :
                  r \in LastAttemptPairs(
                          AttemptOutcome(opts.site, u,
                                         assetEntries[assetCache[u]].tries),
                          done /\ ctxDone) }

\* Every page of the report, every broken link and every asset on it
\* carries the status and the error of what Fetch returned for its URL;
\* done tells whether status 0 with the context's error is admitted in its
\* place.  (A page whose body does not parse has the status of the fetch
\* and the parser's error.)
ReportRecordsFetch(done) ==
  RunsCrawl(opts) =>
    \A i \in 1..Len(report) :
      LET page == report[i] IN
      /\ \E r \in Recordable(page.url, done /\ ctxDone) :
           /\ page.httpStatus = r.status
           /\ \/ page.error = errorString(r)
              \/ page.error = "parse html" /\ r.err = "nil" /\ r.status < 400
      /\ \A k \in 1..Len(page.brokenLinks.v) :
           \E u \in URLs :
             /\ canonicalBrokenURL(u) = page.brokenLinks.v[k].url
             /\ \E r \in Recordable(u, done /\ ctxDone) :
                  page.brokenLinks.v[k] = BrokenLink(canonicalBrokenURL(u), r)
      /\ \A k \in 1..Len(page.assets.v) :
           \E r \in AssetRecordable(page.assets.v[k].url, done /\ ctxDone) :
             page.assets.v[k] =
               buildAssetFromResult(page.assets.v[k].url, page.assets.v[k].type, r)

\* C11 as stated: the status and error a call of Fetch returns, and those
\* the report records for a page, a broken link or an asset, are those of
\* the last attempt made.
C11_Original == FetchReturnsLast(FALSE) /\ ReportRecordsFetch(FALSE)

\* C11, amended: while the context is not cancelled, Fetch returns the
\* status and error of its last attempt and the report records them for the
\* page, broken link or asset.  Once the context is cancelled, Fetch returns
\* the last attempt's status or an empty result with the last attempt's
\* error or the context's, and the report records what Fetch returned or
\* status 0 with the context's error.  An earlier attempt's result is never
\* returned or recorded.
C11_LastAttemptWins == FetchReturnsLast(TRUE) /\ ReportRecordsFetch(TRUE)

\* With retries = 1 and no cancellation the crawl of the site whose link /m
\* answers 500 and then 404 has returned: /m was requested exactly twice and
\* is recorded as a broken link with 404 and "Not Found"; the page /a,
\* answered 503 and then 200, is an ok page with status 200 after two
\* requests, and the asset /l, answered 429 and then 200, has status 200
\* after two requests.
C11_Witness ==
  /\ opts.site = "flaky" /\ opts.Retries = 1
  /\ ~ctxDone
  /\ emitted.done
  /\ fetchCalls[4] = 1 /\ entries[fetchCache[4]].tries = 2
  /\ entries[fetchCache[2]].tries = 2
  /\ assetEntries[assetCache[8]].tries = 2
  /\ \E i, j \in 1..Len(emitted.pages) :
       /\ emitted.pages[i].url = 1
       /\ emitted.pages[i].brokenLinks.v =
            << [url |-> 4, statusCode |-> 404, error |-> "Not Found"] >>
       /\ \E k \in 1..Len(emitted.pages[i].assets.v) :
            /\ emitted.pages[i].assets.v[k].url = 8
            /\ emitted.pages[i].assets.v[k].statusCode = 200
            /\ emitted.pages[i].assets.v[k].error = ""
       /\ emitted.pages[j].url = 2
       /\ emitted.pages[j].httpStatus = 200
       /\ emitted.pages[j].status = "ok"

\* Every goroutine of the crawl has returned: Analyze has its report, the
\* crawl workers and the link-check workers have left their loops and no
\* call of fetchWithCache is open.
AllReturned ==
  /\ emitted.done
  /\ \A w \in WorkerIds : wk[w].pc \in {"exit", "off"}
  /\ \A p \in PoolIds : pool[p].pc \in {"exit", "off"}
  /\ \A t \in DOMAIN fc : fc[t].pc = "none"

\* A caller waits for a slot of the fetch semaphore, every slot being held.
WaitsForSemaphore ==
  /\ fetchSem = normalizeMaxConcurrentFetch(opts)
  /\ \/ \E t \in DOMAIN fc : fc[t].pc = "acquire"
     \/ \E w \in WorkerIds : wk[w].pc = "aacquire"

\* A caller waits on a cache entry whose result is not there yet.
WaitsOnEntry ==
  \/ \E t \in DOMAIN fc : fc[t].pc = "wait" /\ ~entries[fc[t].entry].ready
  \/ \E w \in WorkerIds : wk[w].pc = "await" /\ ~assetEntries[wk[w].aentry].ready

\* A caller of Fetch sleeps in the limiter, or backs off before a retry.
SleepsInLimiter == \E c \in FCallers : fcall[c].pc = "limsleep"
SleepsInBackoff == \E c \in FCallers : fcall[c].pc = "backoff"

RECURSIVE Pow2(_)
Pow2(n) == IF n <= 0 THEN 1 ELSE 2 * Pow2(n - 1)

\* min(100 ms * 2^(n-1), 2 s)
BackoffSchedule(n) ==
  IF baseRetryDelay * Pow2(n - 1) < maxRetryDelay
  THEN baseRetryDelay * Pow2(n - 1) ELSE maxRetryDelay

\* C32 (backoff schedule): in every configuration the delay a call sleeps
\* before its n-th retry is min(100 ms * 2^(n-1), 2 s).
C32_BackoffSchedule ==
  \A c \in DOMAIN fcall :
    \A n \in 1..Len(fcall[c].delays) : fcall[c].delays[n] = BackoffSchedule(n)

\* C33 (Fetch under cancellation): a call in progress whose context has
\* fired makes no further attempt (it returns from a sleep of the limiter
\* or of the backoff whose timer has not fired, and it returns after the
\* attempt it is in), and whenever it returns, its error is the context's
\* cancellation reason.
C33_CancelReturnsReason ==
  [][\A c \in DOMAIN fcall :
       (fctxDone /\ fcall[c].pc \notin {"idle", "done"} /\ fcall'[c] # fcall[c]) =>
         /\ fcall'[c].pc = "done" => Has(fcall'[c].ret.err, "canceled")
         /\ fcall[c].pc = "request" => fcall'[c].pc = "done"
         /\ fcall[c].pc \in {"limsleep", "backoff"} /\ now < fcall[c].wake =>
               fcall'[c].pc = "done"]_vars

\* C40 (nil error means a successful attempt): a Fetch call that has
\* returned a nil error made at least one HTTP attempt, and its last attempt
\* got a response with status < 400 and no error; for every retries value.
C40_NilErrorMeansSuccess ==
  \A c \in DOMAIN fcall :
    (fcall[c].pc = "done" /\ fcall[c].ret.err = << >>) =>
      /\ fcall[c].tries >= 1
      /\ fcall[c].lastOut.err = << >>
      /\ fcall[c].lastOut.status < 400

(***************************************************************************)
(* Specifications.  Each leaves the other's variables at rest.             *)
(***************************************************************************)
FetchInit(o) ==
  /\ fopts = o
  /\ now = 1
  /\ fctxDone = FALSE
  /\ last = [i \in FCallers |-> 0]
  /\ grants = << >>
  /\ fcall = [c \in FCallers |-> IdleCall]

Init ==
  /\ \E o \in Configs : CrawlInit(o)
  /\ FetchInit(FOpt(0, 0, 0, "background", "statuses"))

\* The crawl of a run of the fetcher alone: it never starts.
ParkedCrawl == Opt("origin", 1, 0, 0, "background")

InitFetch ==
  /\ \E o \in FConfigs : FetchInit(o)
  /\ CrawlInit(ParkedCrawl)

Spec == Init /\ [][Next]_vars

SpecFetch == InitFetch /\ [][NextFetch]_vars

(***************************************************************************)
(* Cancellable runs under fair scheduling: crawls of one level, by one    *)
(* worker and by two (on "twin" a link-check worker waits on the cache     *)
(* entry of the other, on "contend" a crawl worker waits for the only slot *)
(* of the fetch semaphore), whose context may be cancelled at any moment,  *)
(* and Fetch calls through a                                               *)
(* shared limiter with one retry whose context may be cancelled at any     *)
(* moment.  The Go scheduler runs every goroutine that can take a step,    *)
(* so a step of the program that stays possible is eventually taken; the   *)
(* cancellation itself is the caller's choice and is never forced.         *)
(***************************************************************************)
LiveConfigs ==
  { Opt("order", 1, 0, 0, "cancel"), Opt("origin", 1, 1, 0, "cancel"),
    Opt("shared", 1, 1, 0, "cancel"),
    Opt("twin", 2, 1, 0, "cancel"), Opt("contend", 2, 1, 1, "cancel"),
    [Opt("origin", 1, 1, 0, "background") EXCEPT !.URL = 0] }

FLiveConfigs == { FOpt(1, 0, 5, "cancel", "statuses") }

\* Two goroutines call Fetch; the other callers make no call.
FetchInitLive(o) ==
  /\ fopts = o
  /\ now = 1
  /\ fctxDone = FALSE
  /\ last = [i \in FCallers |-> 0]
  /\ grants = << >>
  /\ fcall = [c \in FCallers |->
                IF c <= 2 THEN IdleCall ELSE [IdleCall EXCEPT !.pc = "done"]]

InitLive ==
  \/ /\ \E o \in LiveConfigs : CrawlInit(o)
     /\ FetchInit(FOpt(0, 0, 0, "background", "statuses"))
  \/ /\ \E o \in FLiveConfigs : FetchInitLive(o)
     /\ CrawlInit(ParkedCrawl)

\* The run is one of the Fetch runs (the crawl is parked), not a crawl.
FetchRun == opts = ParkedCrawl

NextLive ==
  \/ ~FetchRun /\ Next
  \/ FetchRun /\ NextFetch

\* The steps of the crawl's goroutines other than WorkerCollect.
CrawlSteps ==
  \/ AnalyzeEarly
  \/ AggSeed
  \/ AggRecv
  \/ AggLink
  \/ AggCancel
  \/ AggReturn
  \/ CloseResults
  \/ Emit
  \/ \E w \in WorkerIds :
       \/ WorkerRecv(w) \/ WorkerFetched(w) \/ WorkerFeed(w) \/ WorkerSend(w)
       \/ GaLock(w) \/ GaWait(w) \/ GaAcquire(w) \/ GaFailed(w) \/ GaFetchEnd(w)
  \/ \E p \in PoolIds : PoolRecv(p) \/ PoolSend(p)
  \/ \E t \in Threads :
       FwcLock(t) \/ FwcWait(t) \/ FwcAcquire(t) \/ FwcFailed(t) \/ FwcFetchEnd(t)

\* WorkerCollect can take a step: a worker is in runLinkChecks' receive
\* loop and its result channel holds an outcome.
CollectReady == \E w \in WorkerIds : wk[w].pc = "collect" /\ resultCh[w] # << >>

\* Weak fairness of WorkerCollect, written with its enabling condition.
CollectFair ==
  \/ []<>(~(~FetchRun /\ CollectReady))
  \/ []<><< ~FetchRun /\ \E w \in WorkerIds : WorkerCollect(w) >>_vars

\* The steps of the Fetch callers and of the clock.
FetchSteps ==
  \/ Tick
  \/ \E c \in FCallers :
       \/ FetchCall(c) \/ LimiterWait(c) \/ LimiterWake(c)
       \/ DoRequest(c) \/ BackoffWake(c)

SpecLive ==
  /\ InitLive
  /\ [][NextLive]_vars
  /\ WF_vars(~FetchRun /\ CrawlSteps)
  /\ CollectFair
  /\ WF_vars(FetchRun /\ FetchSteps)

(***************************************************************************)
(* Runs with retries: the crawls of the site whose URLs answer differently *)
(* on their first request, with one retry, cancellable or not, beside the  *)
(* cancellable crawls above; and every run of the fetcher alone.           *)
(***************************************************************************)
RetryConfigs ==
  LiveConfigs
    \cup { [Opt("flaky", 1, 1, 0, ctx) EXCEPT !.Retries = 1] :
             ctx \in {"background", "cancel"} }

InitRetry ==
  \/ /\ \E o \in RetryConfigs : CrawlInit(o)
     /\ FetchInit(FOpt(0, 0, 0, "background", "statuses"))
  \/ InitFetch

SpecRetry == InitRetry /\ [][NextLive]_vars

====
